---------------------------- MODULE Spec2Model ----------------------------
(***************************************************************************)
(* A model of the athenaeum knowledge base (tobias-nimo/athenaeum):        *)
(*   - the chunker          src/src/athenaeum/chunker.py                    *)
(*   - rank fusion          src/src/athenaeum/search/hybrid.py              *)
(*   - the lexical index    src/src/athenaeum/search/bm25.py                *)
(*   - the vector index     src/src/athenaeum/search/vector.py              *)
(*   - the registry         src/src/athenaeum/document_store.py             *)
(*   - the stored files     src/src/athenaeum/storage.py                    *)
(*   - the orchestrator     src/src/athenaeum/athenaeum.py                  *)
(*                                                                         *)
(* Text is a sequence of one-character strings, so that str.find, slicing  *)
(* and str.count are computed as Python computes them.  Scores are IEEE    *)
(* 754 doubles, kept as two limbs of the significand and an exponent: a    *)
(* fused score is the sum of the rounded terms 1/(k+rank) in the order in  *)
(* which the code adds them.                                               *)
(*                                                                         *)
(* The files of src/ are of different versions: Document declares no field *)
(* `tags` that the engine reads, chunk_markdown takes fewer parameters     *)
(* than the engine passes.  The model does what this code does when it is  *)
(* run: the reads raise AttributeError, the calls raise TypeError.         *)
(*                                                                         *)
(* The specifications share the variables:                                 *)
(*   SpecChunker      one call of chunk_markdown on a bounded text         *)
(*   SpecAutoChunk    one call of auto_chunk_splitter on a text length     *)
(*   SpecFusion       one call of reciprocal_rank_fusion on bounded lists  *)
(*   SpecFusionScores the same call with k = 60 and scaled input scores    *)
(*   SpecBM25         a BM25Index on its own: add, remove, search          *)
(*   SpecBM25Threads  a BM25Index with a writing and a searching thread    *)
(*   Spec             the engine: load_doc, calls made on its vector       *)
(*                    index and its registry, and the search operations    *)
(*   SpecRegistry     the engine and its files: load_doc, the removal of   *)
(*                    stored files, read_doc, the tag operations and the   *)
(*                    construction of a new engine                         *)
(***************************************************************************)
EXTENDS Integers, Sequences, FiniteSets

VARIABLES
  markdown,      \* chunker: the document text handed to chunk_markdown
  chunk_texts,   \* chunker: what splitter.split_text(markdown) returned
  chunks,        \* chunker: the list chunk_markdown returned
  chunk_pc,      \* chunker: "start" before the call, "done" after it
  ranked_lists,  \* fusion: the input lists of (chunk, score) pairs
  rrf_k,         \* fusion: the argument k
  rrf_top_k,     \* fusion: the argument top_k
  fused,         \* fusion: the list reciprocal_rank_fusion returned
  rrf_pc,        \* fusion: "start" before the call, "done" after it
  docs,          \* engine: DocumentStore._docs, the documents in insertion order
  bm25_entries,  \* engine: BM25Index._entries
  bm25_model,    \* engine: BM25Index._bm25, None or the corpus it was built from
  vector_store,  \* engine: the chunks held by the vector store
  config_similarity_threshold,  \* engine: AthenaeumConfig.similarity_threshold
  call,          \* engine: the last call of the public API and what it returned
  content_md,    \* engine: the files docs/<doc_id>/content.md, by doc_id
  metadata_json, \* engine: the registry as metadata.json holds it
  index_call,    \* lexical index: the last call made on a BM25Index directly
  writer,        \* lexical index: a thread inside add_chunks/remove_document
  reader,        \* lexical index: a thread inside search
  auto_call      \* chunker: the last call of auto_chunk_splitter

chunkerVars == <<markdown, chunk_texts, chunks, chunk_pc>>
fusionVars == <<ranked_lists, rrf_k, rrf_top_k, fused, rrf_pc>>
engineVars ==
  <<docs, bm25_entries, bm25_model, vector_store,
    config_similarity_threshold, call>>
storageVars == <<content_md, metadata_json>>
indexVars == <<index_call>>
threadVars == <<writer, reader>>
policyVars == <<auto_call>>

-----------------------------------------------------------------------------
(* Bounds of the model *)

MaxTextLen == 3
MaxPieces == 3
MaxListLen == 2
MaxLists == 2
MaxTopK == 2
MaxDocs == 2
MaxSearchTopK == 2
MaxEntries == 3

\* config.py: rrf_k: int = 60
RrfKDefault == 60

-----------------------------------------------------------------------------
(* Generic helpers *)

Min(a, b) == IF a <= b THEN a ELSE b

Max(a, b) == IF a >= b THEN a ELSE b

SetMin(S) == CHOOSE x \in S : \A y \in S : x <= y

SeqsUpTo(S, n) == UNION {[1..m -> S] : m \in 0..n}

RECURSIVE FlattenSeqs(_)
FlattenSeqs(ss) ==
  IF ss = <<>> THEN <<>> ELSE Head(ss) \o FlattenSeqs(Tail(ss))

\* an optional value: None is the empty tuple, a given value x is <<x>>
None == <<>>

Some(x) == <<x>>

\* the value of `call` before any call of the engine's API
NoCall ==
  [op |-> "none", query |-> <<>>, top_k |-> 0, scope |-> "", strategy |-> "",
   tags |-> None, outcome |-> "", result |-> <<>>, fetched |-> <<>>,
   queried |-> {}, doc_id |-> None, vector_raises |-> FALSE,
   start_line |-> 0, end_line |-> 0]

\* the value of `index_call` before any call made on a BM25Index
NoIndexCall ==
  [op |-> "none", query |-> <<>>, top_k |-> 0, doc_id |-> None,
   doc_ids |-> None, before |-> <<>>, outcome |-> "", result |-> <<>>]

\* a thread that is in no method of the BM25Index
NoThread == [pc |-> "idle"]

\* the value of `auto_call` before any call of auto_chunk_splitter
NoAutoCall == [pc |-> "idle", length |-> 0, chunk_size |-> 0, chunk_overlap |-> 0]

-----------------------------------------------------------------------------
(* Python string primitives on sequences of characters *)

NL == "\n"

CR == "\r"

\* s[:n] (n >= 0), clipped to the length of s as Python slicing is
Prefix(s, n) == SubSeq(s, 1, Min(n, Len(s)))

\* s.count("\n")
CountNL(s) == Cardinality({i \in 1..Len(s) : s[i] = NL})

\* s.find(sub, start) with start >= 0: the lowest 0-based offset i >= start at
\* which sub occurs in s, or -1; the empty string is found at start when
\* start <= len(s)
Find(s, sub, start) ==
  LET hits == {i \in start..(Len(s) - Len(sub)) :
                 \A j \in 1..Len(sub) : s[i + j] = sub[j]}
  IN IF hits = {} THEN -1 ELSE SetMin(hits)

\* len(text.split("\n"))
NumLines(s) == CountNL(s) + 1

-----------------------------------------------------------------------------
(* Python floats: IEEE 754 binary64 values >= 0, rounded to nearest, ties   *)
(* to even.  A float is [hi, lo, e]: its 53-bit significand is              *)
(* hi * 2^26 + lo with 2^26 <= hi < 2^27 and 0 <= lo < 2^26, its value is   *)
(* significand * 2^e; 0.0 is FZero.                                         *)

Limb == 2^26

FZero == [hi |-> 0, lo |-> 0, e |-> 0]

IsFZero(x) == x.hi = 0

\* the number of binary digits of n, 1 <= n < 2^30
BitLen(n) == CHOOSE b \in 1..30 : 2^(b - 1) <= n /\ (b = 30 \/ n < 2^b)

\* carries out of lo and out of the 53 bits
Normal(hi, lo, e) ==
  LET h == hi + lo \div Limb
      l == lo % Limb
  IN IF h >= 2 * Limb
       THEN [hi |-> h \div 2, lo |-> l \div 2 + (h % 2) * (Limb \div 2),
             e |-> e + 1]
     ELSE [hi |-> h, lo |-> l, e |-> e]

\* float(n) for an integer 0 <= n < 2^26
FromInt(n) ==
  IF n = 0 THEN FZero
  ELSE [hi |-> n * 2^(27 - BitLen(n)), lo |-> 0, e |-> BitLen(n) - 53]

\* the first `steps` binary digits of r/n after the point, as limbs, and the
\* remainder left
RECURSIVE DivLoop(_, _, _, _, _)
DivLoop(n, steps, r, hi, lo) ==
  IF steps = 0 \/ hi < 0 \/ lo < 0  \* (hi and lo are never negative)
    THEN [hi |-> hi, lo |-> lo, r |-> r]
  ELSE LET bit == IF 2 * r >= n THEN 1 ELSE 0
           l == 2 * lo + bit
       IN DivLoop(n, steps - 1, 2 * r - bit * n, 2 * hi + l \div Limb, l % Limb)

\* 1.0 / n for an integer 1 <= n < 2^29, by long division
Reciprocal(n) ==
  LET b == BitLen(n)
  IN IF n = 2^(b - 1) THEN [hi |-> Limb, lo |-> 0, e |-> 0 - (b - 1) - 52]
     ELSE LET q == DivLoop(n, 52 + b, 1, 0, 0)
          IN Normal(q.hi, q.lo + (IF 2 * q.r > n THEN 1 ELSE 0), 0 - (52 + b))

\* the reciprocals of the small integers, computed once
SmallReciprocals == [n \in 1..(RrfKDefault + 8) |-> Reciprocal(n)]

\* 1.0 / n
FRecip(n) ==
  IF n \in DOMAIN SmallReciprocals THEN SmallReciprocals[n]
  ELSE Reciprocal(n)

\* how the digits shifted out compare with half a unit of the last place
Lost(rem, half) ==
  IF rem = 0 THEN "zero" ELSE IF rem < half THEN "below"
  ELSE IF rem = half THEN "half" ELSE "above"

\* the significand hi * 2^26 + lo (not 0) shifted right by d >= 0 places
ShiftRight(hi, lo, d) ==
  IF d = 0 THEN [hi |-> hi, lo |-> lo, lost |-> "zero"]
  ELSE IF d <= 26
    THEN [hi |-> hi \div 2^d,
          lo |-> lo \div 2^d + (hi % 2^d) * 2^(26 - d),
          lost |-> Lost(lo % 2^d, 2^(d - 1))]
  ELSE IF d <= 53
    THEN LET rh == hi % 2^(d - 26)
             hh == 2^(d - 27)
         IN [hi |-> 0, lo |-> hi \div 2^(d - 26),
             lost |-> IF rh > hh THEN "above"
                      ELSE IF rh = hh
                        THEN (IF lo = 0 THEN "half" ELSE "above")
                      ELSE IF rh = 0 /\ lo = 0 THEN "zero" ELSE "below"]
  ELSE [hi |-> 0, lo |-> 0, lost |-> "below"]

\* x + y
FAdd(x, y) ==
  IF IsFZero(x) THEN y
  ELSE IF IsFZero(y) THEN x
  ELSE LET big == IF x.e >= y.e THEN x ELSE y
           small == IF x.e >= y.e THEN y ELSE x
           s == ShiftRight(small.hi, small.lo, big.e - small.e)
           lo0 == big.lo + s.lo
           lo1 == lo0 % Limb
           hi1 == big.hi + s.hi + lo0 \div Limb
       IN IF hi1 < 2 * Limb
            THEN LET up == \/ s.lost = "above"
                           \/ (s.lost = "half" /\ lo1 % 2 = 1)
                 IN Normal(hi1, lo1 + (IF up THEN 1 ELSE 0), big.e)
            ELSE LET lo2 == lo1 \div 2 + (hi1 % 2) * (Limb \div 2)
                     up == /\ lo1 % 2 = 1
                           /\ (s.lost # "zero" \/ lo2 % 2 = 1)
                 IN Normal(hi1 \div 2, lo2 + (IF up THEN 1 ELSE 0),
                           big.e + 1)

\* x < y
FLt(x, y) ==
  IF IsFZero(y) THEN FALSE
  ELSE IF IsFZero(x) THEN TRUE
  ELSE \/ x.e < y.e
       \/ (x.e = y.e /\ x.hi < y.hi)
       \/ (x.e = y.e /\ x.hi = y.hi /\ x.lo < y.lo)

FLe(x, y) == x = y \/ FLt(x, y)

-----------------------------------------------------------------------------
(* chunker.py: chunk_markdown *)

StartCharFallbackZero(md, chunk_text, search_start) ==
  LET found == Find(md, chunk_text, search_start)
  IN IF found = -1 THEN 0 ELSE found

StartCharFromZero(md, chunk_text, search_start) ==
  LET found == Find(md, chunk_text, 0)
  IN IF found = -1 THEN search_start ELSE found

\* the offset the loop body assigns to start_char for one piece
StartChar(md, chunk_text, search_start) ==
  LET found == Find(md, chunk_text, search_start)
  IN IF found = -1 THEN search_start ELSE found

ChunkIndexOffByOne(i) == i + 1

\* enumerate(chunk_texts) numbers the pieces from 0
ChunkIndex(i) == i

MakeChunkRelativeEnd(md, doc_id, i, chunk_text, start_char) ==
  [doc_id |-> doc_id,
   chunk_index |-> ChunkIndex(i),
   start_line |-> CountNL(Prefix(md, start_char)) + 1,
   end_line |-> CountNL(chunk_text),
   text |-> chunk_text]

\* the ChunkMetadata built for piece number i (0-based) located at start_char
MakeChunk(md, doc_id, i, chunk_text, start_char) ==
  LET start_line == CountNL(Prefix(md, start_char)) + 1
  IN [doc_id |-> doc_id,
      chunk_index |-> ChunkIndex(i),
      start_line |-> start_line,
      end_line |-> start_line + CountNL(chunk_text),
      text |-> chunk_text]

\* the for loop of chunk_markdown from piece number i (0-based) on
RECURSIVE ChunkLoop(_, _, _, _, _)
ChunkLoop(md, doc_id, pieces, i, search_start) ==
  IF i >= Len(pieces) THEN <<>>
  ELSE LET start_char == StartChar(md, pieces[i + 1], search_start)
       IN <<MakeChunk(md, doc_id, i, pieces[i + 1], start_char)>>
          \o ChunkLoop(md, doc_id, pieces, i + 1, start_char + 1)

\* chunk_markdown(markdown, doc_id, text_splitter) where pieces is what
\* text_splitter.split_text(markdown) returns
chunk_markdown(md, doc_id, pieces) ==
  IF md = <<>> THEN <<>> ELSE ChunkLoop(md, doc_id, pieces, 0, 0)

-----------------------------------------------------------------------------
(* The chunker's inputs *)

Chars == {"a", NL}

Texts == SeqsUpTo(Chars, MaxTextLen)

Substrings(s) ==
  {SubSeq(s, i, j) : i \in 1..(Len(s) + 1), j \in 0..Len(s)}

\* a piece that is no part of any document over Chars
ForeignPiece == <<"b">>

\* what a TextSplitter may return for md: any list of strings; the model
\* draws the pieces from the substrings of md and one foreign string
SplitOutputs(md) == SeqsUpTo(Substrings(md) \cup {ForeignPiece}, MaxPieces)

ChunkDocId == "d"

InitChunker ==
  /\ markdown \in Texts
  /\ chunk_texts = <<>>
  /\ chunks = <<>>
  /\ chunk_pc = "start"
  /\ ranked_lists = <<>> /\ rrf_k = RrfKDefault /\ rrf_top_k = 0
  /\ fused = <<>> /\ rrf_pc = "idle"
  /\ docs = <<>> /\ bm25_entries = <<>> /\ bm25_model = None
  /\ vector_store = <<>> /\ config_similarity_threshold = None
  /\ call = NoCall /\ index_call = NoIndexCall
  /\ content_md = <<>> /\ metadata_json = <<>>
  /\ writer = NoThread /\ reader = NoThread
  /\ auto_call = NoAutoCall

ChunkMarkdown ==
  /\ chunk_pc = "start"
  /\ \E pieces \in SplitOutputs(markdown) :
       /\ chunk_texts' = (IF markdown = <<>> THEN <<>> ELSE pieces)
       /\ chunks' = chunk_markdown(markdown, ChunkDocId, pieces)
  /\ chunk_pc' = "done"
  /\ UNCHANGED markdown

-----------------------------------------------------------------------------
(* chunker.py: auto_chunk_splitter *)

ShortBelow == 5000
MediumBelow == 50000

\* auto_chunk_splitter(text): the chunk_size and chunk_overlap handed to
\* make_splitter; of the text only its length len(text) is read
auto_chunk_splitter(length) ==
  IF length < ShortBelow THEN [chunk_size |-> 500, chunk_overlap |-> 50]
  ELSE IF length < MediumBelow
    THEN [chunk_size |-> 1500, chunk_overlap |-> 200]
  ELSE [chunk_size |-> 3000, chunk_overlap |-> 400]

MaxOffset == 20

\* the lengths of the texts: up to MaxOffset characters, and up to MaxOffset
\* characters below and above each of the two limits
TextLengths ==
  (0..MaxOffset)
    \cup ((ShortBelow - MaxOffset)..(ShortBelow + MaxOffset))
    \cup ((MediumBelow - MaxOffset)..(MediumBelow + MaxOffset))

InitAutoChunk ==
  /\ auto_call \in [pc : {"start"}, length : TextLengths, chunk_size : {0},
                    chunk_overlap : {0}]
  /\ markdown = <<>> /\ chunk_texts = <<>> /\ chunks = <<>>
  /\ chunk_pc = "idle"
  /\ ranked_lists = <<>> /\ rrf_k = RrfKDefault /\ rrf_top_k = 0
  /\ fused = <<>> /\ rrf_pc = "idle"
  /\ docs = <<>> /\ bm25_entries = <<>> /\ bm25_model = None
  /\ vector_store = <<>> /\ config_similarity_threshold = None
  /\ call = NoCall /\ index_call = NoIndexCall
  /\ content_md = <<>> /\ metadata_json = <<>>
  /\ writer = NoThread /\ reader = NoThread

AutoChunkSplitter ==
  /\ auto_call.pc = "start"
  /\ LET params == auto_chunk_splitter(auto_call.length)
     IN auto_call' = [auto_call EXCEPT !.pc = "done",
                                       !.chunk_size = params.chunk_size,
                                       !.chunk_overlap = params.chunk_overlap]

-----------------------------------------------------------------------------
(* search/hybrid.py: reciprocal_rank_fusion *)

RECURSIVE SumSeq(_)
SumSeq(s) == IF s = <<>> THEN 0 ELSE Head(s) + SumSeq(Tail(s))

\* key = f"{chunk.doc_id}:{chunk.chunk_index}"
ChunkKey(chunk) == <<chunk.doc_id, chunk.chunk_index>>

\* 1.0 / (k + rank), k + rank >= 1
RRFTerm(k, rank) == FRecip(k + rank)

AccumulateOverwrite(prev, term) == term

\* scores[key] = scores.get(key, 0.0) + term
Accumulate(prev, term) == FAdd(prev, term)

OccurrencesRankedByScore(lists) ==
  FlattenSeqs([l \in 1..Len(lists) |->
                 [r \in 1..Len(lists[l]) |->
                    LET s == lists[l]
                        before(i) ==
                          {j \in 1..Len(s) :
                             \/ FLt(s[i].score, s[j].score)
                             \/ (s[j].score = s[i].score /\ j < i)}
                        at == CHOOSE i \in 1..Len(s) :
                                Cardinality(before(i)) = r - 1
                    IN [chunk |-> s[at].chunk, rank |-> r]]])

\* the (rank, chunk) pairs the two loops visit, in order: enumerate(...,
\* start=1) numbers the places of a list, the scores `_score` are not read
Occurrences(lists) ==
  FlattenSeqs([l \in 1..Len(lists) |->
                 [r \in 1..Len(lists[l]) |->
                    [chunk |-> lists[l][r].chunk, rank |-> r]]])

\* the dicts `scores` and `chunks` after the loops: a sequence of
\* [key, chunk, score] in insertion order of the keys (a Python dict keeps
\* the order in which its keys were first inserted)
RECURSIVE FuseLoop(_, _, _)
FuseLoop(occs, k, acc) ==
  IF occs = <<>> THEN acc
  ELSE LET o == Head(occs)
           key == ChunkKey(o.chunk)
           term == RRFTerm(k, o.rank)
           at == {i \in 1..Len(acc) : acc[i].key = key}
           next ==
             IF at = {}
               THEN Append(acc, [key |-> key, chunk |-> o.chunk,
                                 score |-> Accumulate(FZero, term)])
               ELSE [i \in 1..Len(acc) |->
                       IF i \in at
                         THEN [key |-> key, chunk |-> o.chunk,
                               score |-> Accumulate(acc[i].score, term)]
                         ELSE acc[i]]
       IN FuseLoop(Tail(occs), k, next)

\* the position list.sort(key=score, reverse=True) gives element i of s: the
\* sort is stable, elements of equal score keep their order
SortedPosDesc(s, i) ==
  1 + Cardinality({j \in 1..Len(s) :
                     \/ FLt(s[i].score, s[j].score)
                     \/ (s[j].score = s[i].score /\ j < i)})

SortedPosAsc(s, i) ==
  1 + Cardinality({j \in 1..Len(s) :
                     \/ FLt(s[j].score, s[i].score)
                     \/ (s[j].score = s[i].score /\ j < i)})

SortAscending(s) ==
  LET pos == [i \in 1..Len(s) |-> SortedPosAsc(s, i)]
  IN [p \in 1..Len(s) |-> s[CHOOSE i \in 1..Len(s) : pos[i] = p]]

\* s.sort(key=lambda x: x[1], reverse=True)
SortByScoreDesc(s) ==
  LET pos == [i \in 1..Len(s) |-> SortedPosDesc(s, i)]
  IN [p \in 1..Len(s) |-> s[CHOOSE i \in 1..Len(s) : pos[i] = p]]

TakeOneMore(s, n) == Prefix(s, n + 1)

\* s[:n] for n >= 0
Take(s, n) == Prefix(s, n)

\* reciprocal_rank_fusion(ranked_lists, k, top_k): (chunk, rrf_score) pairs
reciprocal_rank_fusion(lists, k, top_k) ==
  LET table == FuseLoop(Occurrences(lists), k, <<>>)
      merged == [i \in 1..Len(table) |->
                   [chunk |-> table[i].chunk, score |-> table[i].score]]
  IN Take(SortByScoreDesc(merged), top_k)

-----------------------------------------------------------------------------
(* The inputs of one fusion call *)

FusionChunk(doc_id, idx) ==
  [doc_id |-> doc_id, chunk_index |-> idx, start_line |-> 1, end_line |-> 1,
   text |-> <<"a">>]

\* X, Y and Z of the documented example
ChunkX == FusionChunk("d1", 0)
ChunkY == FusionChunk("d1", 1)
ChunkZ == FusionChunk("d2", 0)

FusionChunks == {ChunkX, ChunkY, ChunkZ}

\* a ranked list as an index returns it: the input scores fall with the rank
RankedList(cs) ==
  [r \in 1..Len(cs) |-> [chunk |-> cs[r], score |-> FromInt(10 - r)]]

RankedLists == {RankedList(cs) : cs \in SeqsUpTo(FusionChunks, MaxListLen)}

\* the values of k: the smallest ones and the default of config.py
KValues == {0, 1, RrfKDefault}

\* the pairs (k, top_k): every k with the greatest top_k, and the smaller
\* values of top_k with k = 1
FusionArgs == {<<k, MaxTopK>> : k \in KValues} \cup {<<1, 0>>, <<1, 1>>}

InitFusion ==
  /\ ranked_lists \in SeqsUpTo(RankedLists, MaxLists)
  /\ \E args \in FusionArgs : rrf_k = args[1] /\ rrf_top_k = args[2]
  /\ fused = <<>>
  /\ rrf_pc = "start"
  /\ markdown = <<>> /\ chunk_texts = <<>> /\ chunks = <<>>
  /\ chunk_pc = "idle"
  /\ docs = <<>> /\ bm25_entries = <<>> /\ bm25_model = None
  /\ vector_store = <<>> /\ config_similarity_threshold = None
  /\ call = NoCall /\ index_call = NoIndexCall
  /\ content_md = <<>> /\ metadata_json = <<>>
  /\ writer = NoThread /\ reader = NoThread
  /\ auto_call = NoAutoCall

\* one call with the default k, for the comparison of calls that differ in
\* the scores of their lists only
InitFusionScores ==
  /\ ranked_lists \in SeqsUpTo(RankedLists, MaxLists)
  /\ rrf_k = RrfKDefault
  /\ rrf_top_k = MaxTopK
  /\ fused = <<>>
  /\ rrf_pc = "start"
  /\ markdown = <<>> /\ chunk_texts = <<>> /\ chunks = <<>>
  /\ chunk_pc = "idle"
  /\ docs = <<>> /\ bm25_entries = <<>> /\ bm25_model = None
  /\ vector_store = <<>> /\ config_similarity_threshold = None
  /\ call = NoCall /\ index_call = NoIndexCall
  /\ content_md = <<>> /\ metadata_json = <<>>
  /\ writer = NoThread /\ reader = NoThread
  /\ auto_call = NoAutoCall

ReciprocalRankFusion ==
  /\ rrf_pc = "start"
  /\ fused' = reciprocal_rank_fusion(ranked_lists, rrf_k, rrf_top_k)
  /\ rrf_pc' = "done"
  /\ UNCHANGED <<ranked_lists, rrf_k, rrf_top_k>>

-----------------------------------------------------------------------------
(* Values shared by the indexes and the orchestrator *)

\* athenaeum.py: chunk.text[:200]
SnippetLen == 200

IsWhitespace(c) == c \in {" ", NL, CR}

\* str.lower() on the characters of the model
LowerChar(c) == IF c = "A" THEN "a" ELSE IF c = "B" THEN "b" ELSE c

Lower(s) == [i \in 1..Len(s) |-> LowerChar(s[i])]

\* str.split(): the maximal runs of non-whitespace characters, in order
SplitWhitespace(s) ==
  LET starts == {i \in 1..Len(s) :
                   ~IsWhitespace(s[i]) /\ (i = 1 \/ IsWhitespace(s[i - 1]))}
      EndOf(i) == SetMin({j \in i..Len(s) :
                            j = Len(s) \/ IsWhitespace(s[j + 1])})
      NthStart(n) == CHOOSE i \in starts :
                       Cardinality({j \in starts : j < i}) = n - 1
  IN [n \in 1..Cardinality(starts) |->
        SubSeq(s, NthStart(n), EndOf(NthStart(n)))]

\* BM25Index._tokenize: text.lower().split()
Tokenize(text) == SplitWhitespace(Lower(text))

\* the elements of s whose position is marked in keep, in order
RECURSIVE FilterSeq(_, _)
FilterSeq(s, keep) ==
  IF s = <<>> THEN <<>>
  ELSE (IF Head(keep) THEN <<Head(s)>> ELSE <<>>) \o FilterSeq(Tail(s), Tail(keep))

-----------------------------------------------------------------------------
(* search/bm25.py: BM25Index *)

\* how often token occurs in the token list doc
TermFreq(doc, token) == Cardinality({i \in 1..Len(doc) : doc[i] = token})

\* BM25Okapi(corpus).get_scores(tokens) of the external rank_bm25 library,
\* one score per corpus entry.  The library's floating-point Okapi formula is
\* replaced by an integer stand-in with the same shape: a sum over the query
\* tokens of (a weight that falls with the number of entries holding the
\* token) * (the token's frequency in the entry); an entry that holds no
\* query token scores 0.
BM25GetScores(corpus, tokens) ==
  LET N == Len(corpus)
      n(t) == Cardinality({i \in 1..N : TermFreq(corpus[i], t) > 0})
      w(t) == N - n(t) + 1
  IN [i \in 1..N |->
        SumSeq([q \in 1..Len(tokens) |->
                  w(tokens[q]) * TermFreq(corpus[i], tokens[q])])]

\* corpus = [e.tokens for e in self._entries]
Corpus(entries) == [i \in 1..Len(entries) |-> entries[i].tokens]

\* whether BM25Okapi(corpus) of the external rank_bm25 library raises for a
\* corpus of at least one token list: its _calc_idf ends with
\* idf_sum / len(self.idf), a ZeroDivisionError when no token list of the
\* corpus holds a token
BM25OkapiRaises(corpus) == \A i \in 1..Len(corpus) : corpus[i] = <<>>

\* how BM25Index._rebuild ends for the entries it finds
RebuildOutcome(entries) ==
  IF entries # <<>> /\ BM25OkapiRaises(Corpus(entries))
    THEN "ZeroDivisionError" ELSE "ok"

\* BM25Index._rebuild: self._bm25 after it, given self._bm25 before it.  The
\* scoring structure is built from the token lists of the entries and is
\* None when there are no entries; when BM25Okapi raises, the assignment of
\* line 28 does not happen and the structure built before stays
Rebuild(entries, bm25) ==
  IF entries # <<>>
    THEN IF BM25OkapiRaises(Corpus(entries)) THEN bm25
         ELSE Some(Corpus(entries))
  ELSE None

\* BM25Index.add_chunks without its final _rebuild
AppendEntries(entries, cs) ==
  entries \o [i \in 1..Len(cs) |-> [chunk |-> cs[i], tokens |-> Tokenize(cs[i].text)]]

\* BM25Index.remove_document without its final _rebuild:
\* [e for e in self._entries if e.chunk.doc_id != doc_id]
RemoveEntries(entries, doc_id) ==
  FilterSeq(entries,
            [i \in 1..Len(entries) |-> entries[i].chunk.doc_id # doc_id])

\* BM25Index.size
BM25Size(entries) == Len(entries)

BM25PassesAll(chunk, doc_id, doc_ids) == TRUE

\* the two `continue` tests of BM25Index.search, negated
BM25Passes(chunk, doc_id, doc_ids) ==
  /\ ~(doc_id # None /\ chunk.doc_id # doc_id[1])
  /\ ~(doc_ids # None /\ chunk.doc_id \notin doc_ids[1])

\* BM25Index.search(query, top_k, doc_id, doc_ids): how it ends and what it
\* returns.  The scores are those of the scoring structure, one per token
\* list it was built from; self._entries[i] raises IndexError when they
\* number more than the entries.  A result carries float(score)
bm25_search(entries, bm25, query, top_k, doc_id, doc_ids) ==
  IF bm25 = None \/ entries = <<>> THEN [outcome |-> "ok", result |-> <<>>]
  ELSE LET scores == BM25GetScores(bm25[1], Tokenize(query))
           all == [i \in 1..Len(scores) |->
                     [chunk |-> entries[i].chunk,
                      score |-> FromInt(scores[i])]]
           keep == [i \in 1..Len(scores) |->
                      BM25Passes(entries[i].chunk, doc_id, doc_ids)]
       IN IF Len(scores) > Len(entries)
            THEN [outcome |-> "IndexError", result |-> <<>>]
          ELSE [outcome |-> "ok",
                result |-> Take(SortByScoreDesc(FilterSeq(all, keep)), top_k)]

-----------------------------------------------------------------------------
(* search/vector.py: VectorIndex over the external embeddings and store *)

CharSet(s) == {s[i] : i \in 1..Len(s)}

\* the relevance score in [0, 1] the store reports for a stored text and a
\* query.  Embedding and distance belong to the external collaborators; the
\* stand-in is 1.0 for equal texts, 0.0 for texts without a common
\* character, and otherwise 1/(2 + n) for n characters that only one of the
\* two texts holds.
Similarity(query, text) ==
  LET q == CharSet(query)
      t == CharSet(text)
  IN IF query = text THEN FromInt(1)
     ELSE IF q \cap t = {} THEN FZero
     ELSE FRecip(2 + Cardinality((q \cup t) \ (q \cap t)))

\* VectorIndex.add_chunks: the store upserts by id "{doc_id}:{chunk_index}"
RECURSIVE Upsert(_, _)
Upsert(store, cs) ==
  IF cs = <<>> THEN store
  ELSE LET c == Head(cs)
           at == {i \in 1..Len(store) : ChunkKey(store[i]) = ChunkKey(c)}
       IN Upsert(IF at = {} THEN Append(store, c)
                 ELSE [i \in 1..Len(store) |-> IF i \in at THEN c ELSE store[i]],
                 Tail(cs))

\* the filter VectorIndex.search hands to the store: doc_id first, else doc_ids
VectorPasses(chunk, doc_id, doc_ids) ==
  IF doc_id # None THEN chunk.doc_id = doc_id[1]
  ELSE IF doc_ids # None THEN chunk.doc_id \in doc_ids[1]
  ELSE TRUE

\* the test that drops a result in VectorIndex.search, negated
AboveThreshold(score, similarity_threshold) ==
  ~(similarity_threshold # None /\ FLt(score, similarity_threshold[1]))

\* the loop of VectorIndex.search over what the store returned: a result
\* below the threshold is skipped
AboveThresholdOnly(results, similarity_threshold) ==
  FilterSeq(results,
            [i \in 1..Len(results) |->
               AboveThreshold(results[i].score, similarity_threshold)])

\* VectorIndex.search(query, top_k, doc_id, doc_ids, similarity_threshold):
\* the store returns the k most similar stored chunks that pass the filter,
\* most similar first; the threshold is applied to what it returned
vector_search(store, query, top_k, doc_id, doc_ids, similarity_threshold) ==
  LET all == [i \in 1..Len(store) |->
                [chunk |-> store[i], score |-> Similarity(query, store[i].text)]]
      keep == [i \in 1..Len(store) |-> VectorPasses(store[i], doc_id, doc_ids)]
  IN AboveThresholdOnly(Take(SortByScoreDesc(FilterSeq(all, keep)), top_k),
                        similarity_threshold)

-----------------------------------------------------------------------------
(* models.py and document_store.py: Document and DocumentStore.            *)
(*                                                                         *)
(* A document is a record of the fields that models.py declares for        *)
(* Document and that the model follows: id, name and num_lines.  Document   *)
(* declares no field `tags`: the keyword `tags=` that load_doc passes to    *)
(* its constructor is dropped, and reading doc.tags raises AttributeError.  *)

\* how a method ends: it raises an exception, or returns a value
Raised(exception) == [outcome |-> exception, result |-> <<>>]

Returned(value) == [outcome |-> "ok", result |-> value]

\* Document(id=..., name=..., num_lines=..., tags=...): the record holds the
\* declared fields, the undeclared keyword is ignored
Document(id, name, num_lines, tags) ==
  [id |-> id, name |-> name, num_lines |-> num_lines]

\* whether doc.tags can be read: the object has the attribute
HasTags(doc) == "tags" \in DOMAIN doc

\* DocumentStore.get: the document with this id, or None
DocGet(registry, doc_id) ==
  LET at == {i \in 1..Len(registry) : registry[i].id = doc_id}
  IN IF at = {} THEN None ELSE Some(registry[CHOOSE i \in at : TRUE])

\* DocumentStore.add: self._docs[doc.id] = doc (a dict keeps a replaced key's
\* place and appends a new one)
DocAdd(registry, doc) ==
  IF DocGet(registry, doc.id) = None THEN Append(registry, doc)
  ELSE [i \in 1..Len(registry) |->
          IF registry[i].id = doc.id THEN doc ELSE registry[i]]

\* DocumentStore.remove: self._docs.pop(doc_id, None)
DocRemove(registry, doc_id) ==
  FilterSeq(registry, [i \in 1..Len(registry) |-> registry[i].id # doc_id])

\* DocumentStore.list_by_tags: [doc for doc in docs if doc.tags & tags]
list_by_tags(registry, tags) ==
  IF \E i \in 1..Len(registry) : ~HasTags(registry[i])
    THEN Raised("AttributeError")
    ELSE Returned(FilterSeq(registry,
                            [i \in 1..Len(registry) |->
                               registry[i].tags \cap tags # {}]))

\* DocumentStore.list_tags: result |= doc.tags for every document
list_tags(registry) ==
  IF \E i \in 1..Len(registry) : ~HasTags(registry[i])
    THEN Raised("AttributeError")
    ELSE Returned(UNION {registry[i].tags : i \in 1..Len(registry)})

-----------------------------------------------------------------------------
(* storage.py and pathlib: the files under the storage root *)

\* Path.write_text on a POSIX system: the characters are written as they are
WriteText(text) == text

\* Path.read_text: text mode with universal newlines, "\r\n" and a lone
\* "\r" are read as "\n"
ReadText(file) ==
  LET keep == [i \in 1..Len(file) |->
                 ~(file[i] = CR /\ i < Len(file) /\ file[i + 1] = NL)]
      read == [i \in 1..Len(file) |-> IF file[i] = CR THEN NL ELSE file[i]]
  IN FilterSeq(read, keep)

\* md_dest.write_text(markdown): the file of doc_id is created or replaced
WriteFile(files, doc_id, text) ==
  [d \in (DOMAIN files) \cup {doc_id} |->
     IF d = doc_id THEN WriteText(text) ELSE files[d]]

\* StorageManager.remove_doc: shutil.rmtree of the document's directory, if
\* it exists
RemoveFile(files, doc_id) == [d \in (DOMAIN files) \ {doc_id} |-> files[d]]

\* md_path.exists()
FileExists(files, doc_id) == doc_id \in DOMAIN files

\* DocumentStore._save: doc.model_dump(mode="json") of every document, in the
\* registry's order; the dump holds the declared fields
SaveMetadata(registry) ==
  [i \in 1..Len(registry) |->
     [id |-> registry[i].id, name |-> registry[i].name,
      num_lines |-> registry[i].num_lines]]

\* DocumentStore._load: Document.model_validate of every record of
\* metadata.json
LoadMetadata(json) ==
  [i \in 1..Len(json) |->
     Document(json[i].id, json[i].name, json[i].num_lines, None)]

\* str.split("\n"): the k-th of the lines the newlines separate
LineOf(text, k) ==
  LET nls == {p \in 1..Len(text) : text[p] = NL}
      nth(j) == IF j = 0 THEN 0
                ELSE IF j > Cardinality(nls) THEN Len(text) + 1
                ELSE CHOOSE p \in nls : Cardinality({q \in nls : q < p}) = j - 1
  IN SubSeq(text, nth(k - 1) + 1, nth(k) - 1)

SplitLines(text) == [k \in 1..NumLines(text) |-> LineOf(text, k)]

\* "\n".join(lines)
RECURSIVE JoinLines(_)
JoinLines(lines) ==
  IF lines = <<>> THEN <<>>
  ELSE IF Len(lines) = 1 THEN lines[1]
  ELSE lines[1] \o <<NL>> \o JoinLines(Tail(lines))

\* the index a slice bound stands for: a negative bound counts from the
\* end, and the result is clamped to 0..len
SliceIndex(len, b) == IF b < 0 THEN Max(len + b, 0) ELSE Min(b, len)

\* s[a:b]
Slice(s, a, b) == SubSeq(s, SliceIndex(Len(s), a) + 1, SliceIndex(Len(s), b))

-----------------------------------------------------------------------------
(* athenaeum.py: the orchestrator *)

\* the scores of _search_by_name: 1.0 and 0.5
NameExactScore == FromInt(1)

NameContainsScore == FRecip(2)

\* SearchHit(id=doc.id, name=doc.name, num_lines=doc.num_lines,
\* table_of_contents=..., tags=doc.tags, score=score, snippet=snippet) for a
\* document whose attributes can all be read; the table of contents is left
\* out
SearchHit(doc, score, snippet) ==
  [id |-> doc.id, name |-> doc.name, num_lines |-> doc.num_lines,
   score |-> score, snippet |-> snippet]

\* the list of SearchHit built from a list of [doc, score, snippet]: reading
\* doc.tags for the constructor raises AttributeError for a document
\* without the attribute
SearchHits(items) ==
  IF \E i \in 1..Len(items) : ~HasTags(items[i].doc)
    THEN Raised("AttributeError")
    ELSE Returned([i \in 1..Len(items) |->
                     SearchHit(items[i].doc, items[i].score,
                               items[i].snippet)])

\* score = 1.0 if query_lower == name_lower else 0.5
NameScore(query_lower, name_lower) ==
  IF query_lower = name_lower THEN NameExactScore ELSE NameContainsScore

\* Athenaeum._search_by_name(query, top_k, doc_ids)
search_by_name(registry, query, top_k, doc_ids) ==
  LET query_lower == Lower(query)
      matches(doc) ==
        /\ ~(doc_ids # None /\ doc.id \notin doc_ids[1])
        /\ Find(Lower(doc.name), query_lower, 0) # -1
      score(doc) == NameScore(query_lower, Lower(doc.name))
      cand == FilterSeq(registry,
                        [i \in 1..Len(registry) |-> matches(registry[i])])
      scored == SortByScoreDesc([i \in 1..Len(cand) |->
                                   [doc |-> cand[i], score |-> score(cand[i]),
                                    snippet |-> <<>>]])
  IN SearchHits(Take(scored, top_k))

\* the indexes Athenaeum._search_chunks queries for a strategy
QueriedBy(strategy) ==
  IF strategy = "bm25" THEN {"bm25"}
  ELSE IF strategy = "vector" THEN {"vector"}
  ELSE {"bm25", "vector"}

\* Athenaeum._search_chunks(query, top_k, strategy, doc_id, doc_ids); the
\* vector index is called without a similarity threshold
search_chunks(entries, bm25, store, query, top_k, strategy, doc_id, doc_ids) ==
  IF strategy = "bm25"
    THEN bm25_search(entries, bm25, query, top_k, doc_id, doc_ids).result
  ELSE IF strategy = "vector"
    THEN vector_search(store, query, top_k, doc_id, doc_ids, None)
  ELSE reciprocal_rank_fusion(
         <<bm25_search(entries, bm25, query, top_k, doc_id, doc_ids).result,
           vector_search(store, query, top_k, doc_id, doc_ids, None)>>,
         RrfKDefault, top_k)

\* whether the call of self._bm25.search in _search_chunks raises: it is made
\* for the strategies bm25 and hybrid, for hybrid before the vector index is
\* queried, outside any try
LexicalFailurePropagates(entries, bm25, query, top_k, strategy) ==
  /\ strategy # "vector"
  /\ bm25_search(entries, bm25, query, top_k, None, None).outcome # "ok"

SnippetUncut(text) == text

\* chunk.text[:200]
Snippet(text) == Prefix(text, SnippetLen)

\* chunk.doc_id not in doc_scores or score > doc_scores[chunk.doc_id]
Replaces(acc, at, score) ==
  at = {} \/ FLt(acc[CHOOSE i \in at : TRUE].score, score)

\* the aggregation loop of search_docs: doc_scores and doc_snippets as a
\* sequence of [doc_id, score, snippet] in insertion order of the doc ids
RECURSIVE AggregateLoop(_, _)
AggregateLoop(hits, acc) ==
  IF hits = <<>> THEN acc
  ELSE LET h == Head(hits)
           at == {i \in 1..Len(acc) : acc[i].doc_id = h.chunk.doc_id}
           entry == [doc_id |-> h.chunk.doc_id, score |-> h.score,
                     snippet |-> Snippet(h.chunk.text)]
           next ==
             IF ~Replaces(acc, at, h.score) THEN acc
             ELSE IF at = {} THEN Append(acc, entry)
             ELSE [i \in 1..Len(acc) |-> IF i \in at THEN entry ELSE acc[i]]
       IN AggregateLoop(Tail(hits), next)

\* doc = self._doc_store.get(doc_id); if doc is None: continue
KnownOnly(registry, ranked) ==
  FilterSeq(ranked,
            [i \in 1..Len(ranked) |->
               DocGet(registry, ranked[i].doc_id) # None])

\* the documents of the ranked entries, with the entries' scores and snippets
WithDocs(registry, known) ==
  [i \in 1..Len(known) |->
     [doc |-> DocGet(registry, known[i].doc_id)[1],
      score |-> known[i].score, snippet |-> known[i].snippet]]

\* return results[:top_k], when building the results did not raise
CutTo(built, top_k) ==
  IF built.outcome # "ok" THEN built
  ELSE Returned(Take(built.result, top_k))

\* the second loop of search_docs and its return: the documents by score,
\* those the registry does not know skipped, a SearchHit built for each of
\* the others, the list cut to top_k
AggregatedHits(registry, hits, top_k) ==
  CutTo(SearchHits(WithDocs(registry,
                            KnownOnly(registry,
                                      SortByScoreDesc(AggregateLoop(hits,
                                                                    <<>>))))),
        top_k)

\* `if tags:` is true for a given, non-empty set
TagsGiven(tags) == tags # None /\ tags[1] # {}

\* doc_ids of search_docs: None, or the ids of the documents list_by_tags
\* returns
AllowedDocIds(registry, tags) ==
  IF TagsGiven(tags)
    THEN LET listed == list_by_tags(registry, tags[1])
         IN IF listed.outcome # "ok" THEN listed
            ELSE Returned(Some({listed.result[i].id :
                                  i \in 1..Len(listed.result)}))
    ELSE Returned(None)

\* `if not doc_ids: return []` inside `if tags:`
ShortCircuits(doc_ids) == doc_ids # None /\ doc_ids[1] = {}

VectorFailureMaskedInHybrid(strategy, vector_raises) ==
  vector_raises /\ strategy = "vector"

\* Athenaeum._search_chunks calls self._vector.search for the strategies
\* vector and hybrid outside any try: what the vector index raises leaves
\* _search_chunks and its caller
VectorFailurePropagates(strategy, vector_raises) ==
  vector_raises /\ "vector" \in QueriedBy(strategy)

\* how a search ended that queried no index
Unqueried(ended) ==
  [outcome |-> ended.outcome, result |-> ended.result, fetched |-> <<>>,
   queried |-> {}]

\* what a call that a failure of the vector index ended leaves behind: no
\* value is returned
RaisedByVector(strategy) ==
  [outcome |-> "VectorError", result |-> <<>>, fetched |-> <<>>,
   queried |-> QueriedBy(strategy)]

\* what a call that an IndexError of the lexical index ended leaves behind
RaisedByLexical ==
  [outcome |-> "IndexError", result |-> <<>>, fetched |-> <<>>,
   queried |-> {"bm25"}]

\* how a search ended that fetched chunk hits from the indexes of a strategy
Queried(ended, fetched, strategy) ==
  [outcome |-> ended.outcome, result |-> ended.result, fetched |-> fetched,
   queried |-> QueriedBy(strategy)]

\* lines 206-230 of search_docs: the fetched chunk hits aggregated by
\* document
Aggregated(registry, fetched, top_k, strategy) ==
  Queried(AggregatedHits(registry, fetched, top_k), fetched, strategy)

\* Athenaeum.search_docs(query, top_k, scope, strategy, tags): how it ends
\* (outcome), what it returns (result), the chunk hits it fetched (fetched)
\* and the indexes it queried (queried); vector_raises says whether the
\* vector index raises when it is queried
search_docs(registry, entries, bm25, store, query, top_k, scope, strategy, tags, vector_raises) ==
  LET allowed == AllowedDocIds(registry, tags)
  IN IF allowed.outcome # "ok" THEN Unqueried(allowed)
     ELSE IF ShortCircuits(allowed.result) THEN Unqueried(Returned(<<>>))
     ELSE IF scope = "names"
       THEN Unqueried(search_by_name(registry, query, top_k, allowed.result))
     ELSE IF LexicalFailurePropagates(entries, bm25, query, top_k * 3, strategy)
       THEN RaisedByLexical
     ELSE IF VectorFailurePropagates(strategy, vector_raises)
       THEN RaisedByVector(strategy)
     ELSE Aggregated(registry,
                     search_chunks(entries, bm25, store, query, top_k * 3,
                                   strategy, None, allowed.result),
                     top_k, strategy)

\* Athenaeum.list_docs(tags)
list_docs(registry, tags) ==
  LET listed == IF TagsGiven(tags) THEN list_by_tags(registry, tags[1])
                ELSE Returned(registry)
  IN IF listed.outcome # "ok" THEN listed
     ELSE SearchHits([i \in 1..Len(listed.result) |->
                        [doc |-> listed.result[i], score |-> FZero,
                         snippet |-> <<>>]])

\* a ContentSearchHit
ContentSearchHit(chunk, score) ==
  [doc_id |-> chunk.doc_id, line_range |-> <<chunk.start_line, chunk.end_line>>,
   text |-> chunk.text, score |-> score]

\* the return of search_doc_contents: a ContentSearchHit for every fetched
\* chunk hit
ContentSearchHits(fetched, strategy) ==
  Queried(Returned([i \in 1..Len(fetched) |->
                      ContentSearchHit(fetched[i].chunk, fetched[i].score)]),
          fetched, strategy)

DocKnownAlways(registry, doc_id) == TRUE

\* search_doc_contents: doc is not None
DocKnown(registry, doc_id) == DocGet(registry, doc_id) # None

\* Athenaeum.search_doc_contents(doc_id, query, top_k, strategy)
search_doc_contents(registry, entries, bm25, store, doc_id, query, top_k, strategy, vector_raises) ==
  IF ~DocKnown(registry, doc_id)
    THEN [outcome |-> "ValueError", result |-> <<>>, fetched |-> <<>>,
          queried |-> {}]
  ELSE IF LexicalFailurePropagates(entries, bm25, query, top_k, strategy)
    THEN RaisedByLexical
  ELSE IF VectorFailurePropagates(strategy, vector_raises)
    THEN RaisedByVector(strategy)
  ELSE ContentSearchHits(search_chunks(entries, bm25, store, query, top_k,
                                       strategy, Some(doc_id), None),
                         strategy)

\* doc.tags |= tags
TagsAdded(old, tags) == old \cup tags

\* doc.tags -= tags
TagsRemoved(old, tags) == old \ tags

\* the registry after self._doc_store.add(doc) of a document whose tags
\* were changed in place
WithTags(registry, doc_id, new_tags) ==
  DocAdd(registry, [DocGet(registry, doc_id)[1] EXCEPT !.tags = new_tags])

\* Athenaeum.tag_doc(doc_id, tags): how it ends and the registry it leaves
tag_doc(registry, doc_id, tags) ==
  IF DocGet(registry, doc_id) = None
    THEN [outcome |-> "ValueError", registry |-> registry]
  ELSE IF ~HasTags(DocGet(registry, doc_id)[1])
    THEN [outcome |-> "AttributeError", registry |-> registry]
  ELSE [outcome |-> "ok",
        registry |-> WithTags(registry, doc_id,
                              TagsAdded(DocGet(registry, doc_id)[1].tags,
                                        tags))]

\* Athenaeum.untag_doc(doc_id, tags)
untag_doc(registry, doc_id, tags) ==
  IF DocGet(registry, doc_id) = None
    THEN [outcome |-> "ValueError", registry |-> registry]
  ELSE IF ~HasTags(DocGet(registry, doc_id)[1])
    THEN [outcome |-> "AttributeError", registry |-> registry]
  ELSE [outcome |-> "ok",
        registry |-> WithTags(registry, doc_id,
                              TagsRemoved(DocGet(registry, doc_id)[1].tags,
                                          tags))]

\* Excerpt
Excerpt(doc_id, line_range, text, total_lines) ==
  [doc_id |-> doc_id, line_range |-> line_range, text |-> text,
   total_lines |-> total_lines]

\* Athenaeum.read_doc(doc_id, start_line, end_line); read_text raises
\* FileNotFoundError for a file that is not there
read_doc(registry, files, doc_id, start_line, end_line) ==
  IF ~DocKnown(registry, doc_id) THEN Raised("ValueError")
  ELSE IF ~FileExists(files, doc_id) THEN Raised("FileNotFoundError")
  ELSE LET lines == SplitLines(ReadText(files[doc_id]))
           start_idx == Max(0, start_line - 1)
           end_idx == Min(Len(lines), end_line)
           selected == Slice(lines, start_idx, end_idx)
       IN Returned(<<Excerpt(doc_id, <<start_idx + 1, end_idx>>,
                             JoinLines(selected), Len(lines))>>)

\* chunker.py: def chunk_markdown(markdown, doc_id, text_splitter=None);
\* a parameter is required when it has no default
ChunkMarkdownParams ==
  << [name |-> "markdown", required |-> TRUE],
     [name |-> "doc_id", required |-> TRUE],
     [name |-> "text_splitter", required |-> FALSE] >>

\* whether a call with npos positional arguments and the keyword arguments
\* keywords binds to the parameters: there is a parameter for every
\* positional argument, every keyword names a parameter that no positional
\* argument has filled, and every parameter without a default is filled by
\* a positional argument or a keyword; otherwise the call raises TypeError
\* before the body runs
Binds(params, npos, keywords) ==
  /\ npos <= Len(params)
  /\ \A kw \in keywords :
       \E i \in (npos + 1)..Len(params) : params[i].name = kw
  /\ \A i \in (npos + 1)..Len(params) :
       params[i].required => params[i].name \in keywords

\* the call chunk_markdown(text, doc_id, chunk_size, chunk_overlap,
\* text_splitter=...) of load_doc and of _reindex_bm25: four positional
\* arguments and one keyword
EngineChunkCallBinds == Binds(ChunkMarkdownParams, 4, {"text_splitter"})

-----------------------------------------------------------------------------
(* The engine's inputs *)

\* the ids uuid4 hands out
DocIdPool == <<"d1", "d2", "d3", "d4">>

Tags == {"t1", "t2"}

\* the `tags` argument of a search and of list_docs
TagArgs == {None, Some({"t1"}), Some({"t1", "t2"})}

\* the `tags` argument of load_doc
LoadTagArgs == {None, Some({"t1"})}

\* the extension ".md"
MdExt == <<".", "m", "d">>

\* MarkitdownOCR._EXTENSIONS, the extensions of the default provider, as
\* sequences of characters
SupportedExtensions ==
  { <<".", "p", "d", "f">>, <<".", "p", "p", "t", "x">>,
    <<".", "d", "o", "c", "x">>, <<".", "x", "l", "s", "x">>,
    <<".", "j", "s", "o", "n">>, <<".", "c", "s", "v">>,
    <<".", "t", "x", "t">>, MdExt,
    <<".", "h", "t", "m", "l">>, <<".", "x", "m", "l">>,
    <<".", "r", "t", "f">>, <<".", "e", "p", "u", "b">> }

\* the entry ".*" by which a provider accepts every extension
AnyExtension == <<".", "*">>

\* PurePath.suffix of a file name: i = name.rfind("."), and the part from
\* the last dot on when 0 < i < len(name) - 1; empty when the name has no
\* dot or its last dot is its first or its last character
Suffix(name) ==
  LET dots == {i \in 1..Len(name) : name[i] = "."}
      last == CHOOSE i \in dots : \A j \in dots : j <= i
  IN IF dots = {} THEN <<>>
     ELSE IF 1 < last /\ last < Len(name) THEN SubSeq(name, last, Len(name))
     ELSE <<>>

\* the paths load_doc is called with: whether the file exists, its name and
\* the markdown the converter makes of it
Paths ==
  { [exists |-> TRUE, name |-> <<"a">> \o MdExt, md |-> <<"a", CR, NL, "b">>],
    [exists |-> TRUE, name |-> <<"A", "b">> \o MdExt,
     md |-> <<"a", NL, NL, "b">>],
    [exists |-> TRUE, name |-> <<"a", ".", "x">>, md |-> <<"a">>],
    [exists |-> TRUE, name |-> <<"a", ".">>, md |-> <<"a">>],
    [exists |-> FALSE, name |-> <<"c">> \o MdExt, md |-> <<>>] }

\* splitter.split_text(text) of the engine's splitter: a text with an empty
\* line is cut at it, any other text comes back as one piece
SplitText(text) ==
  IF text = <<"a", NL, NL, "b">> THEN << <<"a">>, <<"b">> >>
  ELSE IF text = <<>> THEN <<>>
  ELSE <<text>>

\* the queries of a search: a letter, a letter in upper case and the empty
\* query
Queries == {<<"a">>, <<"B">>, <<>>}

Scopes == {"names", "contents"}

Strategies == {"bm25", "vector", "hybrid"}

\* AthenaeumConfig(similarity_threshold=1.0), the configuration the engine
\* is constructed with
ConfigSimilarityThreshold == Some(FromInt(1))

MaxLine == 4

\* the start_line and end_line arguments of read_doc
StartLines == (0 - 1)..MaxLine

EndLines == (0 - 2)..MaxLine

\* Athenaeum(embeddings, config) over an empty storage directory
Init ==
  /\ docs = <<>>
  /\ bm25_entries = <<>>
  /\ bm25_model = None
  /\ vector_store = <<>>
  /\ config_similarity_threshold = ConfigSimilarityThreshold
  /\ call = NoCall
  /\ content_md = <<>>
  /\ metadata_json = <<>>
  /\ index_call = NoIndexCall
  /\ writer = NoThread /\ reader = NoThread
  /\ auto_call = NoAutoCall
  /\ markdown = <<>> /\ chunk_texts = <<>> /\ chunks = <<>>
  /\ chunk_pc = "idle"
  /\ ranked_lists = <<>> /\ rrf_k = RrfKDefault /\ rrf_top_k = 0
  /\ fused = <<>> /\ rrf_pc = "idle"

\* what the engine holds, the record of its last call apart
engineData ==
  <<docs, bm25_entries, bm25_model, vector_store,
    config_similarity_threshold, content_md, metadata_json>>

\* the ids that the registry, the stored files or the vector store carry
UsedIds ==
  {docs[i].id : i \in 1..Len(docs)}
    \cup DOMAIN content_md
    \cup {vector_store[i].doc_id : i \in 1..Len(vector_store)}

\* uuid.uuid4().hex[:12]: an id that nothing carries yet
FreshId ==
  DocIdPool[SetMin({n \in 1..Len(DocIdPool) : DocIdPool[n] \notin UsedIds})]

\* the calls that may change what the engine holds.  The others leave it as
\* it was, so a call that follows one of them reaches nothing it does not
\* reach in its place: the calls explored are those made at the start and
\* after a call of this set
Mutating ==
  {"none", "load_doc", "vector.add_chunks", "vector.remove_document",
   "doc_store.remove", "storage.remove_doc", "restart"}

\* Athenaeum.load_doc(path, tags).  The call raises for a missing file, for
\* an extension the provider does not support and when the converter
\* raises; otherwise the markdown is written, the document is registered
\* and the registry is saved, and then the call of chunk_markdown raises
\* TypeError, because it does not bind: the statements behind it, the adds
\* to the two indexes (where the add to the lexical index raises when its
\* _rebuild does) and the return, are not reached.  The copy of the raw file
\* is not followed.
LoadDoc ==
  /\ call.op \in Mutating
  /\ Cardinality(UsedIds) < MaxDocs
  /\ \E path \in Paths, tags \in LoadTagArgs, converter_raises \in BOOLEAN :
       LET ext == Lower(Suffix(path.name))
           doc_id == FreshId
           raised ==
             IF ~path.exists THEN "FileNotFoundError"
             ELSE IF /\ AnyExtension \notin SupportedExtensions
                     /\ ext \notin SupportedExtensions
               THEN "ValueError"
             ELSE IF converter_raises THEN "ConversionError"
             ELSE IF ~EngineChunkCallBinds THEN "TypeError"
             ELSE RebuildOutcome(
                    AppendEntries(bm25_entries,
                                  chunk_markdown(path.md, FreshId,
                                                 SplitText(path.md))))
           registered == raised \in {"TypeError", "ZeroDivisionError", "ok"}
           appended == raised \in {"ZeroDivisionError", "ok"}
           doc == Document(doc_id, path.name, NumLines(path.md), tags)
           cs == chunk_markdown(path.md, doc_id, SplitText(path.md))
           entries == AppendEntries(bm25_entries, cs)
       IN /\ content_md' = IF registered
                             THEN WriteFile(content_md, doc_id, path.md)
                             ELSE content_md
          /\ docs' = IF registered THEN DocAdd(docs, doc) ELSE docs
          /\ metadata_json' = IF registered
                                THEN SaveMetadata(DocAdd(docs, doc))
                                ELSE metadata_json
          /\ bm25_entries' = IF appended THEN entries ELSE bm25_entries
          /\ bm25_model' = IF appended THEN Rebuild(entries, bm25_model)
                           ELSE bm25_model
          /\ vector_store' = IF raised = "ok" THEN Upsert(vector_store, cs)
                             ELSE vector_store
          /\ call' = [NoCall EXCEPT
                        !.op = "load_doc",
                        !.doc_id = IF raised \in {"FileNotFoundError",
                                                  "ValueError"}
                                     THEN None ELSE Some(doc_id),
                        !.outcome = raised,
                        !.result = IF raised = "ok" THEN <<doc_id>>
                                   ELSE <<>>]
  /\ UNCHANGED config_similarity_threshold

\* VectorIndex.add_chunks(chunks), called on the vector index of the
\* engine's storage directory with the chunks of a registered document's
\* stored markdown.  load_doc does not reach its own call of it.  With
\* `long`, the chunks are followed by one more chunk of the document whose
\* text is one character longer than a snippet; to keep the state space
\* small this is done for a document of one chunk on an empty collection.
VectorAddChunks ==
  /\ call.op \in Mutating
  /\ \E d \in 1..Len(docs), long \in BOOLEAN :
       /\ FileExists(content_md, docs[d].id)
       /\ LET text == ReadText(content_md[docs[d].id])
              cs == chunk_markdown(text, docs[d].id, SplitText(text))
              further == [doc_id |-> docs[d].id, chunk_index |-> Len(cs),
                          start_line |-> 1, end_line |-> 1,
                          text |-> [i \in 1..(SnippetLen + 1) |-> "a"]]
          IN /\ long => (Len(cs) = 1 /\ vector_store = <<>>)
             /\ vector_store' =
                  Upsert(vector_store,
                         IF long THEN Append(cs, further) ELSE cs)
             /\ call' = [NoCall EXCEPT !.op = "vector.add_chunks",
                                       !.outcome = "ok"]
  /\ UNCHANGED <<docs, bm25_entries, bm25_model,
                 config_similarity_threshold, content_md, metadata_json>>

\* the chunks VectorIndex.remove_document leaves:
\* self._store._collection.delete(where={"doc_id": doc_id})
VectorRemove(store, doc_id) ==
  FilterSeq(store, [i \in 1..Len(store) |-> store[i].doc_id # doc_id])

\* VectorIndex.remove_document(doc_id), called on the engine's vector index
VectorRemoveDocument ==
  /\ call.op \in Mutating
  /\ \E n \in 1..Len(DocIdPool) :
       /\ DocIdPool[n] \in UsedIds
       /\ vector_store' = VectorRemove(vector_store, DocIdPool[n])
       /\ call' = [NoCall EXCEPT !.op = "vector.remove_document",
                                 !.outcome = "ok"]
  /\ UNCHANGED <<docs, bm25_entries, bm25_model,
                 config_similarity_threshold, content_md, metadata_json>>

\* DocumentStore.remove(doc_id), called on the engine's registry: the
\* registry is saved when a document was removed
DocStoreRemove ==
  /\ call.op \in Mutating
  /\ \E n \in 1..Len(DocIdPool) :
       /\ DocIdPool[n] \in UsedIds
       /\ docs' = DocRemove(docs, DocIdPool[n])
       /\ metadata_json' = IF DocGet(docs, DocIdPool[n]) # None
                             THEN SaveMetadata(DocRemove(docs, DocIdPool[n]))
                             ELSE metadata_json
       /\ call' = [NoCall EXCEPT !.op = "doc_store.remove",
                                 !.outcome = "ok"]
  /\ UNCHANGED <<bm25_entries, bm25_model, vector_store,
                 config_similarity_threshold, content_md>>

\* StorageManager.remove_doc(doc_id), called on the engine's storage
StorageRemoveDoc ==
  /\ call.op \in Mutating
  /\ \E n \in 1..Len(DocIdPool) :
       /\ DocIdPool[n] \in UsedIds
       /\ content_md' = RemoveFile(content_md, DocIdPool[n])
       /\ call' = [NoCall EXCEPT !.op = "storage.remove_doc",
                                 !.outcome = "ok"]
  /\ UNCHANGED <<docs, bm25_entries, bm25_model, vector_store,
                 config_similarity_threshold, metadata_json>>

\* whether the vector index (the embedding call or the store) may raise in
\* a call: only a contents search of a strategy that queries it can tell
VectorOutcomes(scope, strategy) ==
  IF scope = "contents" /\ "vector" \in QueriedBy(strategy)
    THEN {FALSE, TRUE} ELSE {FALSE}

\* the record of a call that ended as `ended` says
CallEnded(record, ended) ==
  [record EXCEPT !.outcome = ended.outcome, !.result = ended.result]

\* the record of a search that ended as `ended` says
SearchEnded(record, ended) ==
  [record EXCEPT !.outcome = ended.outcome, !.result = ended.result,
                 !.fetched = ended.fetched, !.queried = ended.queried]

\* Athenaeum.search_docs(query, top_k, scope, strategy, tags)
SearchDocs ==
  /\ call.op \in Mutating
  /\ \E query \in Queries, top_k \in {1, MaxSearchTopK}, scope \in Scopes,
        strategy \in Strategies, tags \in TagArgs :
       \E vector_raises \in VectorOutcomes(scope, strategy) :
         call' = SearchEnded(
                   [NoCall EXCEPT
                      !.op = "search_docs", !.query = query,
                      !.top_k = top_k, !.scope = scope,
                      !.strategy = strategy, !.tags = tags,
                      !.vector_raises = vector_raises],
                   search_docs(docs, bm25_entries, bm25_model, vector_store,
                               query, top_k, scope, strategy, tags,
                               vector_raises))
  /\ UNCHANGED engineData

\* Athenaeum.search_docs(query, top_k, scope="contents", strategy, tags,
\* aggregate=False): search_docs has no parameter `aggregate`, the call
\* raises TypeError before the body runs
SearchDocsAggregateFalse ==
  /\ call.op \in Mutating
  /\ \E strategy \in Strategies, tags \in {None, Some({"t1"})} :
       call' = [NoCall EXCEPT
                  !.op = "search_docs_aggregate_false", !.query = <<"a">>,
                  !.top_k = 1, !.scope = "contents",
                  !.strategy = strategy, !.tags = tags,
                  !.outcome = "TypeError"]
  /\ UNCHANGED engineData

\* Athenaeum.search_doc_contents(doc_id, query, top_k, strategy) for the ids
\* in use and one that is not
SearchDocContents ==
  /\ call.op \in Mutating
  /\ \E n \in 1..(Cardinality(UsedIds) + 1), query \in Queries,
        top_k \in {1, MaxSearchTopK}, strategy \in Strategies :
       \E vector_raises \in VectorOutcomes("contents", strategy) :
         call' = SearchEnded(
                   [NoCall EXCEPT
                      !.op = "search_doc_contents",
                      !.doc_id = Some(DocIdPool[n]), !.query = query,
                      !.top_k = top_k, !.scope = "contents",
                      !.strategy = strategy,
                      !.vector_raises = vector_raises],
                   search_doc_contents(docs, bm25_entries, bm25_model,
                                       vector_store, DocIdPool[n], query,
                                       top_k, strategy, vector_raises))
  /\ UNCHANGED engineData

\* Athenaeum.list_docs(tags)
ListDocs ==
  /\ call.op \in Mutating
  /\ \E tags \in TagArgs :
       call' = CallEnded([NoCall EXCEPT !.op = "list_docs", !.tags = tags],
                         list_docs(docs, tags))
  /\ UNCHANGED engineData

-----------------------------------------------------------------------------
(* The engine's registry and files: the construction of a new engine over   *)
(* the same storage directory, the tag operations and read_doc             *)

\* Athenaeum._reindex_bm25: how it ends and the entries of the new
\* BM25Index.  For every registered document whose content.md exists the
\* text is read and chunk_markdown is called, which raises TypeError when
\* the call does not bind; its chunks are added to the index, which raises
\* when its _rebuild does.
RECURSIVE ReindexBM25(_, _, _, _)
ReindexBM25(registry, files, entries, bm25) ==
  IF registry = <<>>
    THEN [outcome |-> "ok", entries |-> entries, bm25 |-> bm25]
  ELSE LET doc == Head(registry)
           text == ReadText(files[doc.id])
           cs == chunk_markdown(text, doc.id, SplitText(text))
           added == AppendEntries(entries, cs)
       IN IF ~FileExists(files, doc.id)
            THEN ReindexBM25(Tail(registry), files, entries, bm25)
          ELSE IF ~EngineChunkCallBinds
            THEN [outcome |-> "TypeError", entries |-> entries,
                  bm25 |-> bm25]
          ELSE IF RebuildOutcome(added) # "ok"
            THEN [outcome |-> RebuildOutcome(added), entries |-> added,
                  bm25 |-> bm25]
          ELSE ReindexBM25(Tail(registry), files, added,
                           Rebuild(added, bm25))

\* Athenaeum.__init__ over the storage directory the engine has used: the
\* registry is loaded from metadata.json, the vector index is the persisted
\* collection, the lexical index is rebuilt by _reindex_bm25.  When that
\* raises, the constructor raises and there is no new engine: the caller is
\* left with the one it had.
Restart ==
  /\ call.op \in Mutating
  /\ call.op # "restart"
  /\ LET registry == LoadMetadata(metadata_json)
         rebuilt == ReindexBM25(registry, content_md, <<>>, None)
     IN /\ docs' = IF rebuilt.outcome = "ok" THEN registry ELSE docs
        /\ bm25_entries' = IF rebuilt.outcome = "ok" THEN rebuilt.entries
                           ELSE bm25_entries
        /\ bm25_model' = IF rebuilt.outcome = "ok" THEN rebuilt.bm25
                           ELSE bm25_model
        /\ call' = [NoCall EXCEPT !.op = "restart",
                                  !.outcome = rebuilt.outcome]
  /\ UNCHANGED <<vector_store, config_similarity_threshold, storageVars>>

\* Athenaeum.read_doc(doc_id, start_line, end_line) for the ids in use and
\* one that is not
ReadDoc ==
  /\ call.op \in Mutating
  /\ \E n \in 1..(Cardinality(UsedIds) + 1), start_line \in StartLines,
        end_line \in EndLines :
       call' = CallEnded(
                 [NoCall EXCEPT
                    !.op = "read_doc", !.doc_id = Some(DocIdPool[n]),
                    !.start_line = start_line, !.end_line = end_line],
                 read_doc(docs, content_md, DocIdPool[n], start_line,
                          end_line))
  /\ UNCHANGED engineData

\* the `tags` argument of tag_doc and untag_doc
TagSetArgs == SUBSET Tags

\* Athenaeum.tag_doc(doc_id, tags) for the ids in use and one that is not
TagDoc ==
  /\ call.op \in Mutating
  /\ \E n \in 1..(Cardinality(UsedIds) + 1), tags \in TagSetArgs :
       LET r == tag_doc(docs, DocIdPool[n], tags)
       IN /\ docs' = r.registry
          /\ metadata_json' = IF r.outcome = "ok" THEN SaveMetadata(r.registry)
                              ELSE metadata_json
          /\ call' = [NoCall EXCEPT !.op = "tag_doc",
                                    !.doc_id = Some(DocIdPool[n]),
                                    !.tags = Some(tags),
                                    !.outcome = r.outcome]
  /\ UNCHANGED <<bm25_entries, bm25_model, vector_store,
                 config_similarity_threshold, content_md>>

\* Athenaeum.untag_doc(doc_id, tags)
UntagDoc ==
  /\ call.op \in Mutating
  /\ \E n \in 1..(Cardinality(UsedIds) + 1), tags \in TagSetArgs :
       LET r == untag_doc(docs, DocIdPool[n], tags)
       IN /\ docs' = r.registry
          /\ metadata_json' = IF r.outcome = "ok" THEN SaveMetadata(r.registry)
                              ELSE metadata_json
          /\ call' = [NoCall EXCEPT !.op = "untag_doc",
                                    !.doc_id = Some(DocIdPool[n]),
                                    !.tags = Some(tags),
                                    !.outcome = r.outcome]
  /\ UNCHANGED <<bm25_entries, bm25_model, vector_store,
                 config_similarity_threshold, content_md>>

\* Athenaeum.list_tags()
ListTags ==
  /\ call.op \in Mutating
  /\ LET r == list_tags(docs)
     IN call' = [NoCall EXCEPT !.op = "list_tags", !.outcome = r.outcome,
                               !.result = <<r.result>>]
  /\ UNCHANGED engineData

-----------------------------------------------------------------------------
(* A BM25Index used on its own *)

IndexChunk(d, i, text) ==
  [doc_id |-> d, chunk_index |-> i, start_line |-> i + 1, end_line |-> i + 1,
   text |-> text]

\* the chunk lists add_chunks is called with; the chunk of d3 is blank, its
\* text has no token
IndexChunkLists ==
  { <<IndexChunk("d1", 0, <<"a", " ", "b">>), IndexChunk("d1", 1, <<"a">>)>>,
    <<IndexChunk("d2", 0, <<"A", " ", "a">>)>>,
    <<IndexChunk("d1", 0, <<"b">>)>>,
    <<IndexChunk("d3", 0, <<" ">>)>> }

\* the queries of a search: one token, two tokens, a token no chunk holds
\* and the empty query
IndexQueries == {<<"a">>, <<"B", " ", "a">>, <<"c">>, <<>>}

\* the doc_id and doc_ids arguments of a search
DocIdArgs == {None, Some("d1"), Some("d2"), Some("d3")}

DocIdsArgs == {None, Some({}), Some({"d2"}), Some({"d1", "d2"})}

InitBM25 ==
  /\ bm25_entries = <<>>
  /\ bm25_model = None
  /\ index_call = NoIndexCall
  /\ docs = <<>> /\ vector_store = <<>>
  /\ config_similarity_threshold = None /\ call = NoCall
  /\ content_md = <<>> /\ metadata_json = <<>>
  /\ writer = NoThread /\ reader = NoThread
  /\ auto_call = NoAutoCall
  /\ markdown = <<>> /\ chunk_texts = <<>> /\ chunks = <<>>
  /\ chunk_pc = "idle"
  /\ ranked_lists = <<>> /\ rrf_k = RrfKDefault /\ rrf_top_k = 0
  /\ fused = <<>> /\ rrf_pc = "idle"

\* BM25Index.add_chunks(chunks): the entries are appended, then _rebuild
\* runs; when it raises, the call raises with the entries appended
BM25AddChunks ==
  \E cs \in IndexChunkLists :
    /\ Len(bm25_entries) + Len(cs) <= MaxEntries
    /\ bm25_entries' = AppendEntries(bm25_entries, cs)
    /\ bm25_model' = Rebuild(AppendEntries(bm25_entries, cs), bm25_model)
    /\ index_call' =
         [NoIndexCall EXCEPT
            !.op = "add_chunks",
            !.before = bm25_entries,
            !.outcome = RebuildOutcome(AppendEntries(bm25_entries, cs))]

\* BM25Index.remove_document(doc_id): self._entries is assigned, then
\* _rebuild runs; when it raises, the call raises with the entries removed
BM25RemoveDocument ==
  \E d \in {"d1", "d2", "d3", "d4"} :
    /\ bm25_entries' = RemoveEntries(bm25_entries, d)
    /\ bm25_model' = Rebuild(RemoveEntries(bm25_entries, d), bm25_model)
    /\ index_call' =
         [NoIndexCall EXCEPT
            !.op = "remove_document",
            !.doc_id = Some(d),
            !.before = bm25_entries,
            !.outcome = RebuildOutcome(RemoveEntries(bm25_entries, d))]

\* BM25Index.search(query, top_k, doc_id, doc_ids).  A search leaves the
\* index as it was, so a search that follows a search is not explored.
BM25Search ==
  /\ index_call.op # "search"
  /\ \E query \in IndexQueries, top_k \in {0, 1, MaxEntries},
        doc_id \in DocIdArgs, doc_ids \in DocIdsArgs :
       LET ended == bm25_search(bm25_entries, bm25_model, query, top_k,
                                doc_id, doc_ids)
       IN index_call' =
            [op |-> "search", query |-> query, top_k |-> top_k,
             doc_id |-> doc_id, doc_ids |-> doc_ids, before |-> bm25_entries,
             outcome |-> ended.outcome, result |-> ended.result]
  /\ UNCHANGED <<bm25_entries, bm25_model>>

-----------------------------------------------------------------------------
(* A BM25Index shared by two threads: one inside add_chunks or              *)
(* remove_document, one inside search.  The class holds no lock, so the     *)
(* statements of the two methods interleave.  A step of search is one read  *)
(* of self._entries or self._bm25, the two operands of line 55 included; a  *)
(* step of the writer is one write of either, taken with the reads of       *)
(* self._entries that feed it, which no other thread writes.                *)

InitBM25Threads ==
  /\ bm25_entries = <<>>
  /\ bm25_model = None
  /\ writer = NoThread /\ reader = NoThread
  /\ index_call = NoIndexCall
  /\ docs = <<>> /\ vector_store = <<>>
  /\ config_similarity_threshold = None /\ call = NoCall
  /\ content_md = <<>> /\ metadata_json = <<>>
  /\ auto_call = NoAutoCall
  /\ markdown = <<>> /\ chunk_texts = <<>> /\ chunks = <<>>
  /\ chunk_pc = "idle"
  /\ ranked_lists = <<>> /\ rrf_k = RrfKDefault /\ rrf_top_k = 0
  /\ fused = <<>> /\ rrf_pc = "idle"

\* add_chunks, line 39: one self._entries.append(...) of the loop; the first
\* one enters the method
AddChunksAppend ==
  /\ \E cs \in IF writer.pc = "idle" THEN IndexChunkLists
               ELSE IF writer.pc = "append" THEN {writer.chunks} ELSE {} :
       /\ Len(bm25_entries) + Len(cs) <= MaxEntries
       /\ bm25_entries' = AppendEntries(bm25_entries, <<Head(cs)>>)
       /\ writer' = IF Tail(cs) = <<>> THEN [pc |-> "rebuild"]
                    ELSE [pc |-> "append", chunks |-> Tail(cs)]
  /\ UNCHANGED <<bm25_model, reader, index_call>>

\* remove_document, line 44: self._entries = [e for e in ...]
RemoveDocumentFilter ==
  /\ writer.pc = "idle"
  /\ \E d \in {"d1", "d2"} :
       bm25_entries' = RemoveEntries(bm25_entries, d)
  /\ writer' = [pc |-> "rebuild"]
  /\ UNCHANGED <<bm25_model, reader, index_call>>

\* _rebuild, lines 26-30, the last statement of add_chunks and of
\* remove_document: self._bm25 is assigned, or BM25Okapi raises and the
\* method ends with self._bm25 as it was
WriterRebuild ==
  /\ writer.pc = "rebuild"
  /\ bm25_model' = Rebuild(bm25_entries, bm25_model)
  /\ writer' = NoThread
  /\ UNCHANGED <<bm25_entries, reader, index_call>>

\* search, line 55, left operand of the `or`: self._bm25 is read; when it is
\* None the right operand is not evaluated and line 56 returns []
SearchCheck ==
  /\ reader.pc \in {"idle", "done"}
  /\ \E query \in {<<"a">>}, top_k \in {1, MaxEntries} :
       reader' =
         IF bm25_model = None
           THEN [pc |-> "done", query |-> query, top_k |-> top_k,
                 outcome |-> "ok", result |-> <<>>, scored |-> <<>>,
                 read |-> <<>>]
           ELSE [pc |-> "entries", query |-> query, top_k |-> top_k]
  /\ UNCHANGED <<bm25_entries, bm25_model, writer, index_call>>

\* search, line 55, right operand of the `or`: self._entries is read, a
\* separate read from the one of self._bm25; line 56 returns [] when the
\* list is empty
SearchCheckEntries ==
  /\ reader.pc = "entries"
  /\ reader' =
       IF bm25_entries = <<>>
         THEN [pc |-> "done", query |-> reader.query, top_k |-> reader.top_k,
               outcome |-> "ok", result |-> <<>>, scored |-> <<>>,
               read |-> <<>>]
         ELSE [pc |-> "score", query |-> reader.query, top_k |-> reader.top_k]
  /\ UNCHANGED <<bm25_entries, bm25_model, writer, index_call>>

\* search, lines 58-59: self._bm25.get_scores(tokens); `scored` keeps the
\* token lists the scores were computed for
SearchScore ==
  /\ reader.pc = "score"
  /\ reader' =
       IF bm25_model = None
         THEN [pc |-> "done", query |-> reader.query, top_k |-> reader.top_k,
               outcome |-> "AttributeError", result |-> <<>>,
               scored |-> <<>>, read |-> <<>>]
         ELSE [pc |-> "loop", query |-> reader.query, top_k |-> reader.top_k,
               scores |-> BM25GetScores(bm25_model[1], Tokenize(reader.query)),
               scored |-> bm25_model[1], read |-> <<>>]
  /\ UNCHANGED <<bm25_entries, bm25_model, writer, index_call>>

\* search, lines 62-71: one turn of the loop, entry = self._entries[i], and
\* after the last one the sort and the slice; `read` keeps the entries read
SearchLoop ==
  /\ reader.pc = "loop"
  /\ LET i == Len(reader.read) + 1
         pairs == [j \in 1..Len(reader.read) |->
                     [chunk |-> reader.read[j].chunk,
                      score |-> FromInt(reader.scores[j])]]
         done(outcome, result) ==
           [pc |-> "done", query |-> reader.query, top_k |-> reader.top_k,
            outcome |-> outcome, result |-> result,
            scored |-> reader.scored, read |-> reader.read]
     IN reader' =
          IF i > Len(reader.scores)
            THEN done("ok", Take(SortByScoreDesc(pairs), reader.top_k))
          ELSE IF i > Len(bm25_entries) THEN done("IndexError", <<>>)
          ELSE [reader EXCEPT !.read = Append(@, bm25_entries[i])]
  /\ UNCHANGED <<bm25_entries, bm25_model, writer, index_call>>

-----------------------------------------------------------------------------
(* Specifications *)

vars ==
  <<chunkerVars, fusionVars, engineVars, storageVars, indexVars, threadVars,
    policyVars>>

NextChunker ==
  ChunkMarkdown
    /\ UNCHANGED <<fusionVars, engineVars, storageVars, indexVars,
                   threadVars, policyVars>>

SpecChunker == InitChunker /\ [][NextChunker]_vars

NextAutoChunk ==
  AutoChunkSplitter
    /\ UNCHANGED <<chunkerVars, fusionVars, engineVars, storageVars,
                   indexVars, threadVars>>

SpecAutoChunk == InitAutoChunk /\ [][NextAutoChunk]_vars

NextFusion ==
  ReciprocalRankFusion
    /\ UNCHANGED <<chunkerVars, engineVars, storageVars, indexVars,
                   threadVars, policyVars>>

SpecFusion == InitFusion /\ [][NextFusion]_vars

SpecFusionScores == InitFusionScores /\ [][NextFusion]_vars

\* what a BM25Index used on its own leaves alone
indexIdle ==
  <<chunkerVars, fusionVars, docs, vector_store, config_similarity_threshold,
    call, storageVars, threadVars, policyVars>>

NextBM25 ==
  \/ BM25AddChunks /\ UNCHANGED indexIdle
  \/ BM25RemoveDocument
       /\ UNCHANGED indexIdle
  \/ BM25Search /\ UNCHANGED indexIdle

SpecBM25 == InitBM25 /\ [][NextBM25]_vars

\* what a BM25Index leaves alone, its last call apart
threadsIdle ==
  <<chunkerVars, fusionVars, docs, vector_store, config_similarity_threshold,
    call, storageVars, policyVars>>

NextBM25Threads ==
  \/ AddChunksAppend /\ UNCHANGED threadsIdle
  \/ RemoveDocumentFilter /\ UNCHANGED threadsIdle
  \/ WriterRebuild /\ UNCHANGED threadsIdle
  \/ SearchCheck /\ UNCHANGED threadsIdle
  \/ SearchCheckEntries /\ UNCHANGED threadsIdle
  \/ SearchScore /\ UNCHANGED threadsIdle
  \/ SearchLoop /\ UNCHANGED threadsIdle

SpecBM25Threads == InitBM25Threads /\ [][NextBM25Threads]_vars

\* what the engine's operations leave alone
engineIdle == <<chunkerVars, fusionVars, indexVars, threadVars, policyVars>>

Next ==
  \/ LoadDoc /\ UNCHANGED engineIdle
  \/ VectorAddChunks /\ UNCHANGED engineIdle
  \/ VectorRemoveDocument
       /\ UNCHANGED engineIdle
  \/ DocStoreRemove /\ UNCHANGED engineIdle
  \/ SearchDocs /\ UNCHANGED engineIdle
  \/ SearchDocsAggregateFalse
       /\ UNCHANGED engineIdle
  \/ SearchDocContents /\ UNCHANGED engineIdle
  \/ ListDocs /\ UNCHANGED engineIdle

Spec == Init /\ [][Next]_vars

NextRegistry ==
  \/ LoadDoc /\ UNCHANGED engineIdle
  \/ StorageRemoveDoc /\ UNCHANGED engineIdle
  \/ Restart /\ UNCHANGED engineIdle
  \/ TagDoc /\ UNCHANGED engineIdle
  \/ UntagDoc /\ UNCHANGED engineIdle
  \/ ListTags /\ UNCHANGED engineIdle
  \/ ReadDoc /\ UNCHANGED engineIdle

SpecRegistry == Init /\ [][NextRegistry]_vars

-----------------------------------------------------------------------------
(* Claims about the chunker, checked under SpecChunker *)

\* the lines the chunks cover: the union of [start_line, end_line]
CoveredLines(cs) ==
  UNION {cs[i].start_line .. cs[i].end_line : i \in 1..Len(cs)}

\* C1: for every non-empty text and every splitter the union of the chunks'
\* line ranges [start_line, end_line] is exactly [1, num_lines].
C1_Coverage ==
  (chunk_pc = "done" /\ markdown # <<>>) =>
    CoveredLines(chunks) = 1..NumLines(markdown)

\* C10: chunk_markdown returns one chunk per piece the splitter emitted, in
\* the splitter's order, and their chunk_index values are 0, 1, ..., n-1.
C10_ChunkIndexSequential ==
  (chunk_pc = "done" /\ markdown # <<>>) =>
    /\ Len(chunks) = Len(chunk_texts)
    /\ \A i \in 1..Len(chunks) :
         /\ chunks[i].chunk_index = i - 1
         /\ chunks[i].text = chunk_texts[i]

\* C10 witness: a call that returned three chunks, one of them for a piece
\* that is not in the text and two for the same repeated piece
C10_Witness ==
  /\ chunk_pc = "done"
  /\ Len(chunks) = 3
  /\ chunks[1].text = chunks[2].text
  /\ chunks[3].text = ForeignPiece

\* C11: whenever chunk_markdown emits a chunk for a non-empty text, the
\* first chunk's start_line is 1.
C11_FirstStartsAtOne ==
  (chunk_pc = "done" /\ markdown # <<>> /\ chunks # <<>>) =>
    chunks[1].start_line = 1

\* the 0-based offsets >= from at which sub occurs in the document
OccurrencesFrom(sub, from) ==
  {o \in from..(Len(markdown) - Len(sub)) :
     SubSeq(markdown, o + 1, o + Len(sub)) = sub}

\* the number of newlines before offset o of the document
NewlinesBefore(o) == Cardinality({p \in 1..o : markdown[p] = NL})

\* where the search for piece i (1-based) starts, and the offset at which
\* piece i is located: its first occurrence from there, or the start of the
\* search when there is none
RECURSIVE PieceCursor(_), PieceLocated(_)
PieceCursor(i) == IF i = 1 THEN 0 ELSE PieceLocated(i - 1) + 1

PieceLocated(i) ==
  LET occ == OccurrencesFrom(chunk_texts[i], PieceCursor(i))
  IN IF occ = {} THEN PieceCursor(i) ELSE SetMin(occ)

\* C12: the start_line of a piece is 1 plus the number of newlines before
\* its first occurrence strictly after the previous piece's located offset
\* (from offset 0 for the first piece), whenever there is such an occurrence.
C12_SearchAfterPrevious ==
  (chunk_pc = "done" /\ markdown # <<>>) =>
    \A i \in 1..Len(chunks) :
      OccurrencesFrom(chunk_texts[i], PieceCursor(i)) # {} =>
        chunks[i].start_line =
          1 + NewlinesBefore(SetMin(OccurrencesFrom(chunk_texts[i], PieceCursor(i))))

\* the same piece emitted twice and attributed to two occurrences on
\* different lines
C12_Witness ==
  /\ chunk_pc = "done"
  /\ Len(chunks) >= 2
  /\ chunks[1].text = chunks[2].text
  /\ chunks[1].text # <<>>
  /\ OccurrencesFrom(chunk_texts[2], PieceCursor(2)) # {}
  /\ chunks[2].start_line > chunks[1].start_line

\* C13 as stated: the start_line of every chunk whose text occurs in the
\* document is 1 plus the number of newlines before the first occurrence of
\* the text in the whole document, and end_line >= start_line.
C13_FirstOccurrenceInDocument ==
  (chunk_pc = "done" /\ markdown # <<>>) =>
    \A i \in 1..Len(chunks) :
      /\ chunks[i].end_line >= chunks[i].start_line
      /\ OccurrencesFrom(chunks[i].text, 0) # {} =>
           chunks[i].start_line =
             1 + NewlinesBefore(SetMin(OccurrencesFrom(chunks[i].text, 0)))

\* C13 amended: end_line >= start_line for every chunk, and start_line is 1
\* plus the number of newlines before the first occurrence of the text in
\* the whole document when that occurrence is not before the place where the
\* search for the piece starts.
C13_FirstOccurrenceFromCursor ==
  (chunk_pc = "done" /\ markdown # <<>>) =>
    \A i \in 1..Len(chunks) :
      /\ chunks[i].end_line >= chunks[i].start_line
      /\ (/\ OccurrencesFrom(chunks[i].text, 0) # {}
          /\ SetMin(OccurrencesFrom(chunks[i].text, 0)) >= PieceCursor(i)) =>
           chunks[i].start_line =
             1 + NewlinesBefore(SetMin(OccurrencesFrom(chunks[i].text, 0)))

\* a second chunk on a later line whose text occurs nowhere before the place
\* its search starts
C13_Witness ==
  /\ chunk_pc = "done"
  /\ Len(chunks) >= 2
  /\ OccurrencesFrom(chunks[2].text, 0) # {}
  /\ SetMin(OccurrencesFrom(chunks[2].text, 0)) >= PieceCursor(2)
  /\ chunks[2].start_line = 2
  /\ chunks[2].end_line = 3

\* piece i (1-based) does not occur in the document from the place on
\* where its search starts
NotLocated(i) == OccurrencesFrom(chunk_texts[i], PieceCursor(i)) = {}

\* C28: when a piece the splitter returned cannot be located at or after
\* the search cursor, chunk_markdown does not fail: the piece gets the
\* cursor's position as its offset, there is still one chunk per piece, the
\* pieces after it are processed, and the cursor never moves backwards, so
\* start_line does not decrease with chunk_index.
C28_FallbackToCursor ==
  (chunk_pc = "done" /\ markdown # <<>>) =>
    /\ Len(chunks) = Len(chunk_texts)
    /\ \A i \in 1..Len(chunks) :
         /\ chunks[i].text = chunk_texts[i]
         /\ NotLocated(i) =>
              chunks[i].start_line =
                1 + NewlinesBefore(Min(PieceCursor(i), Len(markdown)))
    /\ \A i \in 1..(Len(chunks) - 1) :
         /\ PieceCursor(i + 1) > PieceCursor(i)
         /\ chunks[i + 1].start_line >= chunks[i].start_line

\* a piece that is not in the document, placed at the cursor on line 2,
\* between two pieces that are located
C28_Witness ==
  /\ chunk_pc = "done"
  /\ Len(chunks) = 3
  /\ ~NotLocated(1) /\ NotLocated(2) /\ ~NotLocated(3)
  /\ chunks[2].text = ForeignPiece
  /\ chunks[2].start_line = 2
  /\ chunks[3].start_line = 3

-----------------------------------------------------------------------------
(* Claims about auto_chunk_splitter, checked under SpecAutoChunk *)

\* C23: auto_chunk_splitter chooses (chunk_size, chunk_overlap) from the
\* character length L as (500, 50) when L < 5,000, (1,500, 200) when
\* 5,000 <= L <= 50,000 and (3,000, 400) when L > 50,000, the lengths 5,000
\* and 50,000 included.
C23_AutoChunkPolicy ==
  auto_call.pc = "done" =>
    LET L == auto_call.length
        chosen == <<auto_call.chunk_size, auto_call.chunk_overlap>>
    IN /\ L < 5000 => chosen = <<500, 50>>
       /\ (5000 <= L /\ L <= 50000) => chosen = <<1500, 200>>
       /\ L > 50000 => chosen = <<3000, 400>>

-----------------------------------------------------------------------------
(* Claims about rank fusion, checked under SpecFusion *)

KeysOf(list) == {ChunkKey(list[r].chunk) : r \in 1..Len(list)}

AllKeys(lists) == UNION {KeysOf(lists[l]) : l \in 1..Len(lists)}

DuplicateFree(list) == Cardinality(KeysOf(list)) = Len(list)

\* the floats of s added from the left, starting from acc
RECURSIVE FSum(_, _)
FSum(acc, s) == IF s = <<>> THEN acc ELSE FSum(FAdd(acc, Head(s)), Tail(s))

\* the members of a set of numbers in increasing order
Ascending(S) ==
  [i \in 1..Cardinality(S) |->
     CHOOSE r \in S : Cardinality({q \in S : q < r}) = i - 1]

\* the places of a list that hold key
PlacesOf(list, key) ==
  {r \in 1..Len(list) : ChunkKey(list[r].chunk) = key}

\* the sum of 1/(k+r) over every position r of every list that holds key,
\* the terms taken list by list and down each list, in double precision
SumOverOccurrences(lists, k, key) ==
  FSum(FZero,
       FlattenSeqs([l \in 1..Len(lists) |->
                      LET rs == Ascending(PlacesOf(lists[l], key))
                      IN [i \in 1..Len(rs) |-> FRecip(k + rs[i])]]))

\* the sum with one term per list that holds key: 1/(k + the key's position in
\* the list), the position being that of its first occurrence
SumOverLists(lists, k, key) ==
  FSum(FZero,
       FlattenSeqs([l \in 1..Len(lists) |->
                      IF key \in KeysOf(lists[l])
                        THEN <<FRecip(k + SetMin(PlacesOf(lists[l], key)))>>
                        ELSE <<>>]))

FusedKeys == {ChunkKey(fused[i].chunk) : i \in 1..Len(fused)}

\* C2 as stated: every returned chunk's fused score is the sum over the lists
\* that contain it of 1/(k + its position), one term per list.
C2_OneTermPerList ==
  rrf_pc = "done" =>
    \A i \in 1..Len(fused) :
      fused[i].score =
        SumOverLists(ranked_lists, rrf_k, ChunkKey(fused[i].chunk))

\* C2 as amended: every returned chunk's fused score is the sum of
\* 1/(k + position) over every position at which the chunk occurs in every
\* list (one term per occurrence), and no chunk is returned twice.
C2_OneTermPerOccurrence ==
  rrf_pc = "done" =>
    /\ Cardinality(FusedKeys) = Len(fused)
    /\ \A i \in 1..Len(fused) :
         fused[i].score =
           SumOverOccurrences(ranked_lists, rrf_k, ChunkKey(fused[i].chunk))

\* C2 witness: X twice in the first list and once in the second, returned
\* with three terms
C2_Witness ==
  /\ rrf_pc = "done"
  /\ rrf_k = 1
  /\ ranked_lists = <<RankedList(<<ChunkX, ChunkX>>), RankedList(<<ChunkY, ChunkX>>)>>
  /\ Len(fused) = 2
  /\ fused[1].chunk = ChunkX
  /\ fused[1].score = FAdd(FAdd(FRecip(2), FRecip(3)), FRecip(3))

C3_Pre ==
  /\ rrf_pc = "done"
  /\ Len(ranked_lists) = 2
  /\ rrf_top_k >= 1
  /\ \A l \in 1..2 :
       DuplicateFree(ranked_lists[l]) /\ Len(ranked_lists[l]) <= rrf_k + 1

InBoth(key) == key \in KeysOf(ranked_lists[1]) \cap KeysOf(ranked_lists[2])

\* C3: fusing two duplicate-free lists of length at most k+1 with top_k >= 1,
\* a chunk of both lists has a strictly greater fused score than, and comes
\* before, every chunk of only one list; A = [X, Y], B = [Z, X] gives X first.
C3_OverlapOutranks ==
  C3_Pre =>
    /\ \A j \in 1..Len(fused) :
         ~InBoth(ChunkKey(fused[j].chunk)) =>
           \A key \in AllKeys(ranked_lists) :
             InBoth(key) =>
               \E i \in 1..(j - 1) :
                 /\ ChunkKey(fused[i].chunk) = key
                 /\ FLt(fused[j].score, fused[i].score)
    /\ (\E key \in AllKeys(ranked_lists) : InBoth(key)) =>
         InBoth(ChunkKey(fused[1].chunk))
    /\ (ranked_lists = <<RankedList(<<ChunkX, ChunkY>>),
                         RankedList(<<ChunkZ, ChunkX>>)>>) =>
         fused[1].chunk = ChunkX

\* C3 witness: the documented example, fused with k = 1 (both lists have the
\* greatest length k+1 allows), the top two returned
C3_Witness ==
  /\ C3_Pre
  /\ rrf_k = 1
  /\ ranked_lists = <<RankedList(<<ChunkX, ChunkY>>), RankedList(<<ChunkZ, ChunkX>>)>>
  /\ Len(fused) = 2
  /\ fused[1].chunk = ChunkX
  /\ fused[2].chunk = ChunkZ

\* C4: the call returns exactly min(top_k, D) pairs, D the number of distinct
\* keys of the input, in non-increasing order of fused score, and no omitted
\* chunk has a greater fused score than a returned one.
C4_TopK ==
  rrf_pc = "done" =>
    /\ Len(fused) = Min(rrf_top_k, Cardinality(AllKeys(ranked_lists)))
    /\ \A i \in 1..(Len(fused) - 1) :
         FLe(fused[i + 1].score, fused[i].score)
    /\ \A key \in AllKeys(ranked_lists) \ FusedKeys :
         \A i \in 1..Len(fused) :
           FLe(SumOverOccurrences(ranked_lists, rrf_k, key), fused[i].score)
    /\ (\A l \in 1..Len(ranked_lists) : ranked_lists[l] = <<>>) => fused = <<>>

\* C4 witness: three distinct chunks fused with top_k = 2, two returned and
\* one left out
C4_Witness ==
  /\ rrf_pc = "done"
  /\ rrf_top_k = 2
  /\ Cardinality(AllKeys(ranked_lists)) = 3
  /\ Len(fused) = 2
  /\ FLt(fused[2].score, fused[1].score)

-----------------------------------------------------------------------------
(* Claims about calls of rank fusion that differ in the input scores,      *)
(* checked under SpecFusionScores                                          *)

\* the same lists with other scores: `scale` times the place in the list
\* (growing down the list for a positive scale, all equal for 0)
Rescored(lists, scale) ==
  [l \in 1..Len(lists) |->
     [r \in 1..Len(lists[l]) |->
        [chunk |-> lists[l][r].chunk, score |-> FromInt(scale * r)]]]

ScoreScales == {0, 7}

\* C26: the output of reciprocal_rank_fusion depends only on the order of
\* the chunks in each input list and on k and top_k, never on the input
\* scores: a call on lists that hold the same chunks in the same places with
\* other scores returns the same chunks in the same order with the same
\* fused scores.
C26_ScoresIgnored ==
  rrf_pc = "done" =>
    \A scale \in ScoreScales :
      reciprocal_rank_fusion(Rescored(ranked_lists, scale), rrf_k, rrf_top_k)
        = fused

\* two lists of two chunks each, fused into three chunks, whose scores fall
\* down the lists while the rescored ones grow
C26_Witness ==
  /\ rrf_pc = "done"
  /\ Len(ranked_lists) = 2
  /\ Len(ranked_lists[1]) = 2 /\ Len(ranked_lists[2]) = 2
  /\ FLt(ranked_lists[1][2].score, ranked_lists[1][1].score)
  /\ FLt(Rescored(ranked_lists, 7)[1][1].score,
         Rescored(ranked_lists, 7)[1][2].score)
  /\ Len(fused) = 2
  /\ fused[1].chunk = ranked_lists[1][1].chunk

-----------------------------------------------------------------------------
(* Claims about the lexical index, checked under SpecBM25 *)

\* the positions of the indexed entries that pass the filter of the last
\* search: the given doc_id, if any, and the given doc_ids, if any
PassingEntries ==
  {i \in 1..Len(bm25_entries) :
     /\ index_call.doc_id = <<>>
          \/ bm25_entries[i].chunk.doc_id = index_call.doc_id[1]
     /\ index_call.doc_ids = <<>>
          \/ bm25_entries[i].chunk.doc_id \in index_call.doc_ids[1]}

\* the scores the scorer gives the indexed entries for the last query, as
\* floats
EntryScores ==
  LET scores ==
        BM25GetScores([i \in 1..Len(bm25_entries) |-> bm25_entries[i].tokens],
                      Tokenize(index_call.query))
  IN [i \in 1..Len(scores) |-> FromInt(scores[i])]

\* the scoring structure is the one _rebuild makes of the current entries:
\* the state every add_chunks and remove_document that returned leaves, and
\* none that raised does (C16, C27)
ScorerCurrent ==
  bm25_model =
    (IF bm25_entries = <<>> THEN None ELSE Some(Corpus(bm25_entries)))

\* C14: on an index whose last add_chunks or remove_document returned,
\* BM25Index.search returns exactly min(top_k, number of indexed chunks
\* that pass the doc_id / doc_ids filter) pairs, each an indexed passing
\* chunk with its score, in non-increasing score order, and no passing chunk
\* scores strictly higher than a returned one unless it is returned too.
C14_TopKOfPassing ==
  (index_call.op = "search" /\ ScorerCurrent) =>
    LET res == index_call.result
        scores == EntryScores
    IN /\ index_call.outcome = "ok"
       /\ Len(res) = Min(index_call.top_k, Cardinality(PassingEntries))
       /\ \A r \in 1..Len(res) :
            \E i \in PassingEntries :
              res[r].chunk = bm25_entries[i].chunk /\ res[r].score = scores[i]
       /\ \A r \in 1..(Len(res) - 1) : FLe(res[r + 1].score, res[r].score)
       /\ \A i \in PassingEntries, r \in 1..Len(res) :
            FLt(res[r].score, scores[i]) =>
              \E q \in 1..Len(res) :
                res[q].chunk = bm25_entries[i].chunk /\ res[q].score = scores[i]

\* a search over three entries of two documents, filtered to one document,
\* that returns one of that document's two chunks and leaves the other out
C14_Witness ==
  /\ index_call.op = "search"
  /\ Len(bm25_entries) = 3
  /\ index_call.doc_id # <<>>
  /\ Cardinality(PassingEntries) = 2
  /\ index_call.top_k = 1
  /\ Len(index_call.result) = 1
  /\ \E i \in PassingEntries :
       FLt(EntryScores[i], index_call.result[1].score)

\* no token of the last query occurs in an indexed entry that passes the
\* filter
NoTokenMatches ==
  \A i \in PassingEntries :
    \A t \in 1..Len(Tokenize(index_call.query)) :
      \A u \in 1..Len(bm25_entries[i].tokens) :
        bm25_entries[i].tokens[u] # Tokenize(index_call.query)[t]

\* C15: BM25Index.search returns an empty list and does not raise when the
\* index holds no chunks and when no query token occurs in any indexed chunk
\* that passes the filter (the empty query included).
C15_NoMatchIsEmpty ==
  (index_call.op = "search" /\ (bm25_entries = <<>> \/ NoTokenMatches)) =>
    /\ index_call.outcome = "ok"
    /\ index_call.result = <<>>

\* C16: BM25Index.remove_document(d) does not raise and leaves exactly the
\* entries whose doc_id differs from d, in their previous order, with the
\* scorer rebuilt from them; removing an id that is not indexed changes
\* nothing.
C16_RemoveDocument ==
  index_call.op = "remove_document" =>
    LET d == index_call.doc_id[1]
        before == index_call.before
        kept == {i \in 1..Len(before) : before[i].chunk.doc_id # d}
        Nth(n) == CHOOSE i \in kept : Cardinality({j \in kept : j < i}) = n - 1
    IN /\ index_call.outcome = "ok"
       /\ Len(bm25_entries) = Cardinality(kept)
       /\ \A n \in 1..Len(bm25_entries) : bm25_entries[n] = before[Nth(n)]
       /\ \A n \in 1..Len(bm25_entries) : bm25_entries[n].chunk.doc_id # d
       /\ kept = 1..Len(before) => bm25_entries = before
       /\ bm25_model =
            (IF bm25_entries = <<>> THEN <<>>
             ELSE << [n \in 1..Len(bm25_entries) |-> bm25_entries[n].tokens] >>)

\* the entries add_chunks makes of a list of chunks
EntriesOf(cs) == AppendEntries(<<>>, cs)

\* how often chunk c is among the chunks of the sequence s of records with
\* a field chunk
TimesIn(s, c) == Cardinality({i \in 1..Len(s) : s[i].chunk = c})

\* C27: after any sequence of add_chunks and remove_document calls the index
\* holds exactly the chunks added and not since removed, in their order; the
\* scoring structure is built from exactly the current entries in their
\* current order and is absent if and only if there are no entries; size is
\* the number of current entries; and a following search over the whole
\* index returns exactly the current chunks.
C27_ReadAfterWrite ==
  /\ bm25_model =
       (IF bm25_entries = <<>> THEN <<>>
        ELSE << [n \in 1..Len(bm25_entries) |-> bm25_entries[n].tokens] >>)
  /\ (bm25_model = None) <=> (BM25Size(bm25_entries) = 0)
  /\ index_call.op = "add_chunks" =>
       /\ \E cs \in IndexChunkLists :
            bm25_entries = index_call.before \o EntriesOf(cs)
       /\ BM25Size(bm25_entries) > Len(index_call.before)
  /\ index_call.op = "remove_document" =>
       /\ \A n \in 1..Len(bm25_entries) :
            /\ bm25_entries[n].chunk.doc_id # index_call.doc_id[1]
            /\ TimesIn(bm25_entries, bm25_entries[n].chunk) =
                 TimesIn(index_call.before, bm25_entries[n].chunk)
       /\ BM25Size(bm25_entries) =
            Cardinality({i \in 1..Len(index_call.before) :
                           index_call.before[i].chunk.doc_id
                             # index_call.doc_id[1]})
  /\ (/\ index_call.op = "search"
      /\ index_call.doc_id = <<>> /\ index_call.doc_ids = <<>>
      /\ index_call.top_k >= BM25Size(bm25_entries)) =>
       /\ Len(index_call.result) = BM25Size(bm25_entries)
       /\ \A n \in 1..Len(bm25_entries) :
            TimesIn(index_call.result, bm25_entries[n].chunk) =
              TimesIn(bm25_entries, bm25_entries[n].chunk)

-----------------------------------------------------------------------------
(* Claims about the engine's searches, checked under Spec *)

\* the ids of the registered documents
RegisteredIds(registry) == {registry[i].id : i \in 1..Len(registry)}

\* the last call was a search_docs that aggregates chunk hits per document,
\* in which the vector index did not raise
IsAggregated ==
  call.op = "search_docs" /\ call.scope = "contents" /\ ~call.vector_raises

\* the positions of document d's chunks in the fetched chunk hits
FetchedOf(d) ==
  {i \in 1..Len(call.fetched) : call.fetched[i].chunk.doc_id = d}

\* the first of document d's fetched chunks that has its highest score
TopFetchedOf(d) ==
  SetMin({i \in FetchedOf(d) :
            \A j \in FetchedOf(d) :
              FLe(call.fetched[j].score, call.fetched[i].score)})

\* C5: an aggregated search_docs returns; it fetches at most top_k * 3 chunk
\* hits and returns at most one hit per document, each with the highest
\* score among that document's fetched chunks, in non-increasing score
\* order, at most top_k of them.
C5_Aggregated ==
  IsAggregated =>
    /\ call.outcome = "ok"
    /\ Len(call.fetched) <= call.top_k * 3
    /\ \A i, j \in 1..Len(call.result) :
         i # j => call.result[i].id # call.result[j].id
    /\ \A i \in 1..Len(call.result) :
         /\ FetchedOf(call.result[i].id) # {}
         /\ \A j \in FetchedOf(call.result[i].id) :
              FLe(call.fetched[j].score, call.result[i].score)
         /\ \E j \in FetchedOf(call.result[i].id) :
              call.fetched[j].score = call.result[i].score
    /\ \A i \in 1..(Len(call.result) - 1) :
         FLe(call.result[i + 1].score, call.result[i].score)
    /\ Len(call.result) <= call.top_k

\* doc_scores and doc_snippets as the aggregation loop of the last
\* search_docs left them, one entry per document of the fetched chunk hits
Recorded == AggregateLoop(call.fetched, <<>>)

IsTagSearch == call.op = "search_docs" /\ TagsGiven(call.tags)

\* the registered documents that carry at least one of the requested tags
Carrying ==
  {i \in 1..Len(docs) :
     HasTags(docs[i]) /\ docs[i].tags \cap call.tags[1] # {}}

\* C7: search_docs with a non-empty tag set that no registered document
\* carries returns an empty list and queries neither the lexical index nor
\* the vector index (so embeds nothing), whatever the scope and strategy.
C7_NoCarrierNoQuery ==
  (IsTagSearch /\ Carrying = {}) =>
    /\ call.outcome = "ok"
    /\ call.result = <<>>
    /\ call.queried = {}

\* what the same search returns without the tag filter and with a top_k
\* that truncates nothing
Unfiltered ==
  search_docs(docs, bm25_entries, bm25_model, vector_store, call.query,
              Len(docs) + Len(vector_store), call.scope, call.strategy,
              None, FALSE).result

\* C8: with a set of tags search_docs returns, whatever the scope and the
\* strategy, hits of registered documents that have at least one requested
\* tag; a document that matches the query and has a requested tag is among
\* them, unless top_k hits were returned already.
C8_TagsOr ==
  (IsTagSearch /\ ~call.vector_raises) =>
    /\ call.outcome = "ok"
    /\ \A i \in 1..Len(call.result) :
         \E d \in Carrying : docs[d].id = call.result[i].id
    /\ LET unfiltered == Unfiltered
       IN \A u \in 1..Len(unfiltered) :
            (\E d \in Carrying : docs[d].id = unfiltered[u].id) =>
              \/ Len(call.result) = call.top_k
              \/ \E i \in 1..Len(call.result) :
                   call.result[i].id = unfiltered[u].id

\* the last call was a search of the vector strategy that fetched chunk hits
IsVectorSearch ==
  /\ call.op \in {"search_docs", "search_doc_contents"}
  /\ call.strategy = "vector"
  /\ call.queried = {"vector"}
  /\ ~call.vector_raises

\* C9: with a similarity threshold configured, no chunk hit that a search
\* of the vector strategy fetches or returns has a similarity below the
\* threshold.
C9_ThresholdApplied ==
  (IsVectorSearch /\ config_similarity_threshold # None) =>
    /\ \A i \in 1..Len(call.fetched) :
         FLe(config_similarity_threshold[1], call.fetched[i].score)
    /\ \A i \in 1..Len(call.result) :
         FLe(config_similarity_threshold[1], call.result[i].score)

\* the last call was a search_docs over the names of the documents
IsNameSearch == call.op = "search_docs" /\ call.scope = "names"

\* c and d are the same letter, whatever their case
SameLetter(c, d) ==
  \/ c = d
  \/ {c, d} = {"a", "A"}
  \/ {c, d} = {"b", "B"}

\* the query of the last call occurs in name at offset o, whatever the case
OccursIgnoringCase(name, o) ==
  /\ o + Len(call.query) <= Len(name)
  /\ \A j \in 1..Len(call.query) : SameLetter(name[o + j], call.query[j])

\* the registered documents, within the tag filter of the last call, whose
\* name contains the query of the last call
NameMatches ==
  {d \in 1..Len(docs) :
     /\ TagsGiven(call.tags) => d \in Carrying
     /\ \E o \in 0..Len(docs[d].name) : OccursIgnoringCase(docs[d].name, o)}

\* the score of a matching name: 1.0 for the whole name, 0.5 otherwise
ExpectedNameScore(d) ==
  IF Len(docs[d].name) = Len(call.query) /\ OccursIgnoringCase(docs[d].name, 0)
    THEN FromInt(1) ELSE FRecip(2)

\* C17: search_docs with scope names returns the documents, within the tag
\* filter, whose name contains the query as a case-insensitive substring:
\* each at most once, with score 1.0 when the query is the whole name and
\* 0.5 otherwise, in non-increasing score order, cut to top_k, the best
\* scores first; and it queries no chunk index.
C17_NameSearch ==
  IsNameSearch =>
    /\ call.outcome = "ok"
    /\ call.queried = {}
    /\ Len(call.result) = Min(call.top_k, Cardinality(NameMatches))
    /\ \A i \in 1..Len(call.result) :
         \E d \in NameMatches :
           /\ call.result[i].id = docs[d].id
           /\ call.result[i].name = docs[d].name
           /\ call.result[i].score = ExpectedNameScore(d)
    /\ \A i, j \in 1..Len(call.result) :
         i # j => call.result[i].id # call.result[j].id
    /\ \A i \in 1..(Len(call.result) - 1) :
         FLe(call.result[i + 1].score, call.result[i].score)
    /\ \A d \in NameMatches :
         (\A i \in 1..Len(call.result) : call.result[i].id # docs[d].id) =>
           \A i \in 1..Len(call.result) :
             FLe(ExpectedNameScore(d), call.result[i].score)

\* C18: search_docs with scope contents and aggregate = false returns the
\* raw chunk hits, at most top_k of them, each a content hit of a
\* registered document that passes the tag filter.
C18_RawHits ==
  call.op = "search_docs_aggregate_false" =>
    /\ call.outcome = "ok"
    /\ Len(call.result) <= call.top_k
    /\ \A i \in 1..Len(call.result) :
         \E d \in 1..Len(docs) :
           /\ call.result[i].doc_id = docs[d].id
           /\ call.result[i].name = docs[d].name
           /\ TagsGiven(call.tags) => d \in Carrying

\* the document the last call named is registered
NamedDocRegistered == call.doc_id[1] \in RegisteredIds(docs)

\* C19: search_doc_contents on an id the registry does not know fails with
\* the not-found error and queries no index; on a registered id, when no
\* index fails, it returns at most top_k content hits, one per fetched chunk
\* hit and in their order, each with that doc_id and the line range, text
\* and score of one of the document's indexed chunks.
C19_SearchDocContents ==
  call.op = "search_doc_contents" =>
    /\ ~NamedDocRegistered =>
         /\ call.outcome = "ValueError"
         /\ call.result = <<>>
         /\ call.queried = {}
    /\ (NamedDocRegistered /\ ~call.vector_raises) =>
         /\ call.outcome = "ok"
         /\ Len(call.result) <= call.top_k
         /\ Len(call.result) = Len(call.fetched)
         /\ \A i \in 1..Len(call.result) :
              /\ call.result[i].doc_id = call.doc_id[1]
              /\ call.result[i].score = call.fetched[i].score
              /\ \E c \in 1..Len(vector_store) :
                   /\ vector_store[c] = call.fetched[i].chunk
                   /\ vector_store[c].doc_id = call.doc_id[1]
                   /\ call.result[i].line_range =
                        <<vector_store[c].start_line, vector_store[c].end_line>>
                   /\ call.result[i].text = vector_store[c].text

\* a hybrid search inside the second of two registered documents, both with
\* chunks in the vector index, that returns both of its chunks as two hits
C19_Witness ==
  /\ call.op = "search_doc_contents"
  /\ Len(docs) = 2 /\ call.doc_id = Some(docs[2].id)
  /\ \E c \in 1..Len(vector_store) : vector_store[c].doc_id = docs[1].id
  /\ call.strategy = "hybrid"
  /\ Len(call.result) = 2
  /\ call.result[1].doc_id = call.result[2].doc_id
  /\ call.result[1].line_range # call.result[2].line_range

\* the last call reached the chunk search of a strategy that queries the
\* vector index, and the vector index raised
VectorRaisedInSearch ==
  /\ call.vector_raises
  /\ "vector" \in call.queried

\* C20: when the vector index raises during a hybrid search, search_docs
\* and search_doc_contents end with that error and return nothing: no
\* lexical-only hits, no empty list, no other partial result.
C20_VectorFailurePropagates ==
  (VectorRaisedInSearch /\ call.strategy = "hybrid") =>
    /\ call.outcome = "VectorError"
    /\ call.result = <<>>
    /\ call.fetched = <<>>

\* a hybrid search_docs that failed over a registry and a vector index that
\* both hold a document
C20_Witness ==
  /\ VectorRaisedInSearch
  /\ call.op = "search_docs" /\ call.strategy = "hybrid"
  /\ call.outcome = "VectorError"
  /\ docs # <<>> /\ vector_store # <<>>

\* C22: an empty query string makes search_docs return an empty result
\* list, never an exception and never a non-empty list, for scope names and
\* for scope contents under every strategy, whatever documents are loaded.
C22_EmptyQueryIsEmpty ==
  (call.op = "search_docs" /\ call.query = <<>> /\ ~call.vector_raises) =>
    (call.outcome = "ok" /\ call.result = <<>>)

-----------------------------------------------------------------------------
(* Claims about the engine's registry and files, checked under             *)
(* SpecRegistry                                                            *)

\* the last call was a read_doc of a registered document
IsReadOfRegistered == call.op = "read_doc" /\ NamedDocRegistered

\* the text of the lines from..to of the stored document, as read_doc reads
\* them; empty when from..to holds no line
LinesText(doc_id, from, to) ==
  LET text == ReadText(content_md[doc_id])
  IN  JoinLines([k \in 1..Max(to - from + 1, 0) |-> LineOf(text, from + k - 1)])

\* C21: read_doc of a registered document, for any integers start_line and
\* end_line, does not fail and returns an excerpt whose line_range has
\* start >= 1 and end <= total_lines and whose text is exactly the
\* document's lines of the returned range, empty when the range selects no
\* line.
C21_ReadDocClamps ==
  IsReadOfRegistered =>
    /\ call.outcome = "ok"
    /\ LET e == call.result[1]
       IN /\ e.line_range[1] >= 1
          /\ e.line_range[2] <= e.total_lines
          /\ e.text = LinesText(e.doc_id, e.line_range[1], e.line_range[2])

\* the tags of the document doc_id in a registry
TagsOf(registry, doc_id) == DocGet(registry, doc_id)[1].tags

\* what a call of tag_doc or untag_doc that is made in this step does
TagStep ==
  call'.op \in {"tag_doc", "untag_doc"} =>
    LET d == call'.doc_id[1]
        T == call'.tags[1]
    IN IF d \in RegisteredIds(docs)
         THEN /\ call'.outcome = "ok"
              /\ RegisteredIds(docs') = RegisteredIds(docs)
              /\ TagsOf(docs', d) =
                   IF call'.op = "tag_doc" THEN TagsOf(docs, d) \cup T
                   ELSE TagsOf(docs, d) \ T
              /\ \A o \in RegisteredIds(docs) \ {d} :
                   TagsOf(docs', o) = TagsOf(docs, o)
         ELSE /\ call'.outcome = "ValueError"
              /\ docs' = docs

\* list_tags returns the union of the registered documents' tag sets
ListTagsIsUnion ==
  call.op = "list_tags" =>
    /\ call.outcome = "ok"
    /\ call.result[1] =
         {t \in Tags : \E i \in 1..Len(docs) : t \in docs[i].tags}

\* C25: tag_doc(d, T) on a registered document makes its tag set its
\* previous tags united with T, untag_doc(d, T) its previous tags minus T,
\* and both leave every other document's tags unchanged; list_tags returns
\* the union of the tag sets of all registered documents; for an unknown
\* doc_id both operations raise a not-found error and change no tags.
C25_Tags == [][TagStep]_vars /\ []ListTagsIsUnion

\* C29: load_doc is all-or-nothing: after a call that raised (in the
\* conversion, the chunking or the vector index's add) the document is
\* absent from the registry, from the lexical index and from the vector
\* index, so that no later list_docs or search returns it.
C29_LoadAllOrNothing ==
  (call.op = "load_doc" /\ call.outcome # "ok" /\ call.doc_id # None) =>
    /\ call.doc_id[1] \notin RegisteredIds(docs)
    /\ \A i \in 1..Len(bm25_entries) :
         bm25_entries[i].chunk.doc_id # call.doc_id[1]
    /\ \A i \in 1..Len(vector_store) :
         vector_store[i].doc_id # call.doc_id[1]

-----------------------------------------------------------------------------
(* Claims about a lexical index shared by threads, checked under           *)
(* SpecBM25Threads                                                         *)

\* C24: a search that interleaves with add_chunks or remove_document never
\* observes a partially rebuilt index: every entry it reads is the one its
\* score was computed for, and it reads no entry out of range (and finds the
\* scoring structure it tested still there).
C24_NoPartialRebuild ==
  reader.pc \in {"loop", "done"} =>
    /\ reader.pc = "done" => reader.outcome = "ok"
    /\ \A j \in 1..Len(reader.read) : reader.read[j].tokens = reader.scored[j]

=============================================================================
